---------------------------- MODULE Spec2Model ----------------------------
(***************************************************************************)
(* A model of the fleet-tracking backend (src/backend): the in-memory      *)
(* stores of app.py, the telemetry pipeline (enhanced_handle_telemetry ->  *)
(* original_handle_telemetry), the geofence state machine, the edge        *)
(* pre-filter and the predictive-maintenance analytics of                  *)
(* edge_processor.py, and the device registry / command lifecycle routes.  *)
(*                                                                         *)
(* Conventions                                                             *)
(*  - A Python dict is a function whose DOMAIN is the set of keys present. *)
(*  - Positions are integers in units of 1e-5 degree.  All positions of    *)
(*    the model lie on one meridian (Lon0), where the haversine formula    *)
(*    reduces to R * |dlat| (see calculate_distance); distances, and a     *)
(*    fence's radius_km, are integers in millimetres.                      *)
(*  - Health scores are integers in thousandths (0..1000).                 *)
(*  - datetime.utcnow() is the variable now, advanced by Tick.             *)
(*  - uuid.uuid4() is a fresh identifier drawn from the counter next_uuid. *)
(***************************************************************************)
EXTENDS Integers, Sequences, FiniteSets, TLC

\* ------------------------------------------------------------------ bounds
\* Largest value of the clock.
MaxClock == 1
\* Samples recorded per device in Spec.
MaxSamples == 2
\* Commands enqueued in a run of SpecCmd or SpecAck.
MaxCmds == 2
\* Registration requests in a run of Spec or SpecCmd.
MaxRegs == 1
\* Recorded samples in SpecHistory (beyond the history capacity).
MaxRecorded == 503
\* Recorded samples in SpecHealth.
MaxHealthSamples == 10
\* Recorded samples in SpecScore.
MaxScoreSamples == 5
\* Recorded samples in SpecAnomaly.
MaxAnomalySamples == 11
\* The last instant of SpecAlerts (beyond the alert capacity).
MaxAlertClock == 1002
\* Registration requests in a run of SpecRegistry.
MaxUpserts == 2

\* ------------------------------------------------------- program constants
HistoryCap == 500
AlertsCap == 1000
AnalysisEvery == 10
MinHealthPoints == 5

\* None, for the integer-valued fields (timestamps).
NoneTs == -1

\* None, for the string-valued fields (JSON null).
None == "<null>"

\* ---------------------------------------------------------------- helpers
Get(m, k, dflt) == IF k \in DOMAIN m THEN m[k] ELSE dflt

Put(f, k, v) == [x \in (DOMAIN f) \cup {k} |-> IF x = k THEN v ELSE f[x]]

Del(f, k) == [x \in (DOMAIN f) \ {k} |-> f[x]]

EmptyDict == [x \in {} |-> 0]

Min(a, b) == IF a <= b THEN a ELSE b

Max(a, b) == IF a >= b THEN a ELSE b

Abs(a) == IF a < 0 THEN -a ELSE a

Clamp(lo, hi, x) == Max(lo, Min(hi, x))

Last(s) == s[Len(s)]

\* s[-n:]
LastN(s, n) == IF Len(s) <= n THEN s ELSE SubSeq(s, Len(s) - n + 1, Len(s))

RECURSIVE SumSeq(_)
SumSeq(s) == IF s = <<>> THEN 0 ELSE s[1] + SumSeq(Tail(s))

RECURSIVE ISqrtIn(_, _, _)
ISqrtIn(n, lo, hi) ==
    IF lo >= hi THEN lo
    ELSE LET mid == (lo + hi + 1) \div 2
         IN IF mid * mid <= n THEN ISqrtIn(n, mid, hi) ELSE ISqrtIn(n, lo, mid - 1)

\* floor(sqrt(n)), for n < 2^31
ISqrt(n) == ISqrtIn(n, 0, Min(n, 46340))

\* deque(maxlen=...).append: at capacity the oldest entry is evicted.
DequeAppend(q, x, maxlen) ==
    IF Len(q) >= maxlen THEN Append(Tail(q), x) ELSE Append(q, x)

\* An alert sequence without a capacity.
alerts_append_unbounded(q, x) == Append(q, x)

\* alerts.append on alerts = deque(maxlen=1000).
alerts_append(q, x) == DequeAppend(q, x, AlertsCap)

\* -------------------------------------------------------------- geometry
\* The longitude -1.32000 of every position of the model.
Lon0 == -132000

\* Metres per degree of latitude: 6371 km * pi / 180 = 111.195 km.
MetresPerDegree == 111195

\* calculate_distance on one meridian (lon1 = lon2): a = sin^2(dlat/2), so
\* c = dlat and the result is R * |dlat|; in millimetres.
calculate_distance(lat1, lon1, lat2, lon2) ==
    (Abs(lat2 - lat1) \div 100) * MetresPerDegree
        + ((Abs(lat2 - lat1) % 100) * MetresPerDegree) \div 100

\* ------------------------------------------------------------------ state
VARIABLES
    now,                    \* datetime.utcnow()
    next_uuid,              \* the next value uuid.uuid4() returns
    assets,                 \* device_id -> latest record
    telemetry,              \* device_id -> deque(maxlen=500) of records
    alerts,                 \* deque(maxlen=1000)
    device_registry,        \* device_id -> device_info
    device_configs,         \* device_id -> configuration
    device_commands,        \* device_id -> list of commands
    geofences,              \* device_id -> geofence_config
    device_geofence_state,  \* device_id -> "inside" | "outside"
    edge_insights,          \* device_id -> edge analytics
    maintenance_predictions,\* device_id -> prediction (app.py)
    pattern_cache,          \* EdgeIntelligence.pattern_cache
    anomaly_models,         \* EdgeIntelligence.anomaly_models (set of keys)
    device_health_scores,   \* PredictiveMaintenance.device_health_scores
    protocol_router,        \* "none" | "ready"
    mqtt_connected,         \* the MQTT client's loop runs, connected to the broker
    industrial_manager,     \* "none" | "ready"
    lorawan_devices,        \* LoRaWANHandler.devices (set of DevEUIs)
    threads,                \* thread -> its position in the pipeline and its locals
    \* observation variables (not program state)
    last_op,                \* the last request and its response
    recorded,               \* device_id -> number of samples ever recorded
    analysis_runs,          \* device_id -> number of analytics invocations by the pipeline
    last_msg,               \* device_id -> last message passed to the pipeline entry point
    registrations           \* number of registration requests served

\* The threads that call the pipeline: a worker of the HTTP server and the
\* network loop of the MQTT client.
ThreadIds == {"coap", "mqtt"}

stores == <<assets, telemetry, alerts, device_registry, device_configs,
            device_commands, geofences, device_geofence_state, edge_insights,
            maintenance_predictions, pattern_cache, anomaly_models,
            device_health_scores>>

adapters == <<protocol_router, mqtt_connected, industrial_manager, lorawan_devices>>

observed == <<last_op, recorded, analysis_runs, last_msg, registrations>>

vars == <<now, next_uuid, stores, adapters, threads, observed>>

Init ==
    /\ now = 0
    /\ next_uuid = 1
    /\ assets = EmptyDict
    /\ telemetry = EmptyDict
    /\ alerts = <<>>
    /\ device_registry = EmptyDict
    /\ device_configs = EmptyDict
    /\ device_commands = EmptyDict
    /\ geofences = EmptyDict
    /\ device_geofence_state = EmptyDict
    /\ edge_insights = EmptyDict
    /\ maintenance_predictions = EmptyDict
    /\ pattern_cache = EmptyDict
    /\ anomaly_models = {}
    /\ device_health_scores = EmptyDict
    /\ protocol_router = "none"
    /\ mqtt_connected = FALSE
    /\ industrial_manager = "none"
    /\ lorawan_devices = {}
    /\ threads = [t \in ThreadIds |-> [pc |-> "idle"]]
    /\ last_op = [op |-> "start"]
    /\ recorded = EmptyDict
    /\ analysis_runs = EmptyDict
    /\ last_msg = EmptyDict
    /\ registrations = 0

\* ------------------------------------------------- industrial_protocols.py
IndustrialProtocol == {"opcua", "modbus", "lorawan"}

\* device_id.replace('lorawan_', '') for the device ids of the model.
DevEui(device_id) ==
    CASE device_id = "lorawan_A1" -> "A1"
      [] OTHER -> device_id

\* LoRaWANHandler.send_downlink: the simulated transmission always succeeds
\* for a registered DevEUI.
send_downlink(dev_eui) == dev_eui \in lorawan_devices

\* IndustrialProtocolManager.send_command
send_command(device_id, protocol) ==
    IF protocol = "lorawan" THEN send_downlink(DevEui(device_id)) ELSE FALSE

\* IndustrialProtocolManager.handle_telemetry: "raise" when the OPC-UA branch
\* calls asyncio.create_task outside a running event loop.
industrial_handle_telemetry(protocol) ==
    IF protocol = "opcua" THEN "raise" ELSE "ok"

\* ------------------------------------------------------ edge_processor.py
\* Compression thresholds (compress_telemetry): 2 % battery, 1 degree C,
\* 0.01 km = 10 000 mm of position.
ThresholdBattery == 2
ThresholdTemperature == 1
ThresholdPosition == 10000

\* detect_anomalies trains and asks the model once the cache holds more than
\* this many points; the model is trained on the last CacheWindow points.
ColdStart == 10
CacheWindow == 50

\* A scorer that may judge any sample anomalous, from the first one on.
detect_anomalies_results_eager(device_id) == BOOLEAN

\* EdgeIntelligence.detect_anomalies: the possible return values.  A device
\* without a model gets an (empty) cache entry and False; with a model and
\* more than 10 cached points the IsolationForest decides, otherwise the
\* features are cached and the result is False.
detect_anomalies_results(device_id) ==
    IF device_id \notin anomaly_models THEN {FALSE}
    ELSE IF Len(Get(pattern_cache, device_id, <<>>)) > ColdStart THEN BOOLEAN
    ELSE {FALSE}

extract_features(data) ==
    <<Get(data, "battery", 0), Get(data, "temperature", 0),
      Get(data, "signal_strength", 0), Get(data, "lat", 0), Get(data, "lon", 0)>>

detect_anomalies_cache(device_id, data) ==
    IF device_id \notin anomaly_models
    THEN IF device_id \in DOMAIN pattern_cache THEN pattern_cache
         ELSE Put(pattern_cache, device_id, <<>>)
    ELSE IF Len(Get(pattern_cache, device_id, <<>>)) > ColdStart THEN pattern_cache
    ELSE Put(pattern_cache, device_id,
             Append(Get(pattern_cache, device_id, <<>>), extract_features(data)))

\* A field value that float() does not accept (a text such as "north"),
\* encoded as an integer no reading takes.
NonNumeric == -1000000000

\* float(data.get(f, 0)) raises ValueError for one of the fields f.
float_raises(data, fields) ==
    \E f \in fields \cap DOMAIN data : data[f] = NonNumeric

\* A significance test that looks at the battery reading only.
significant_change_battery_only(current_data, previous_data) ==
    Abs(Get(current_data, "battery", 0) - Get(previous_data, "battery", 0))
        > ThresholdBattery

\* The significance test of compress_telemetry.
significant_change(current_data, previous_data) ==
    LET battery_change == Abs(Get(current_data, "battery", 0) - Get(previous_data, "battery", 0))
        temp_change == Abs(Get(current_data, "temperature", 0) - Get(previous_data, "temperature", 0))
        position_change == calculate_distance(
            Get(current_data, "lat", 0), Get(current_data, "lon", 0),
            Get(previous_data, "lat", 0), Get(previous_data, "lon", 0))
    IN \/ battery_change > ThresholdBattery
       \/ temp_change > ThresholdTemperature
       \/ position_change > ThresholdPosition

compressed_data(current_data) ==
    [device_id |-> current_data.device_id,
     timestamp |-> current_data.timestamp,
     lat |-> current_data.lat,
     lon |-> current_data.lon,
     battery |-> current_data.battery,
     temperature |-> current_data.temperature,
     compressed |-> TRUE]

\* A pre-filter that lets every sample through (what the pipeline would do
\* without the significance test).
compress_telemetry_nofilter(current_data, has_previous, previous_data) ==
    [data |-> current_data, is_none |-> FALSE, should_process |-> TRUE]

\* EdgeIntelligence.compress_telemetry (compression_enabled is always True).
\* Returns (data, should_process); is_none says that the data returned is
\* None.  Building the compressed dict raises KeyError when
\* the message has no device_id or no timestamp key, and the conversions of
\* the change computation raise ValueError on a non-numeric field: the
\* except branch then returns the full message.
compress_telemetry(current_data, has_previous, previous_data) ==
    IF ~has_previous
    THEN [data |-> current_data, is_none |-> FALSE, should_process |-> TRUE]
    ELSE IF float_raises(current_data, {"battery", "temperature", "lat", "lon"})
    THEN [data |-> current_data, is_none |-> FALSE, should_process |-> TRUE]
    ELSE IF significant_change(current_data, previous_data)
    THEN IF {"device_id", "timestamp"} \subseteq DOMAIN current_data
         THEN [data |-> compressed_data(current_data), is_none |-> FALSE,
               should_process |-> TRUE]
         ELSE [data |-> current_data, is_none |-> FALSE, should_process |-> TRUE]
    ELSE [data |-> current_data, is_none |-> TRUE, should_process |-> FALSE]

\* PredictiveMaintenance._calculate_battery_degradation: the least-squares
\* slope of the last <= 10 battery readings, as numerator and denominator.
battery_slope(history) ==
    LET y == [i \in 1..Len(LastN(history, 10)) |-> LastN(history, 10)[i].battery]
        n == Len(y)
        sum_x == SumSeq([i \in 1..n |-> i - 1])
        sum_y == SumSeq(y)
        sum_xy == SumSeq([i \in 1..n |-> (i - 1) * y[i]])
        sum_x2 == SumSeq([i \in 1..n |-> (i - 1) * (i - 1)])
    IN IF Len(history) < 3 \/ n < 2 \/ n * sum_x2 - sum_x * sum_x = 0
       THEN [num |-> 0, den |-> 1]
       ELSE [num |-> n * sum_xy - sum_x * sum_y, den |-> n * sum_x2 - sum_x * sum_x]

\* PredictiveMaintenance._calculate_movement_intensity, in millimetres.
movement_intensity(points) ==
    IF Len(points) < 2 THEN 0
    ELSE SumSeq([i \in 1..(Len(points) - 1) |->
                    calculate_distance(points[i].lat, points[i].lon,
                                       points[i + 1].lat, points[i + 1].lon)])
         \div (Len(points) - 1)

\* np.std of the temperatures, in hundredths of a degree.
temperature_variation(points) ==
    LET n == Len(points)
        s1 == SumSeq([i \in 1..n |-> points[i].temperature])
        s2 == SumSeq([i \in 1..n |-> points[i].temperature * points[i].temperature])
    IN IF n = 0 THEN 0 ELSE ISqrt(10000 * (n * s2 - s1 * s1)) \div n

\* PredictiveMaintenance._analyze_usage_patterns over history[-20:]
analyze_usage_patterns(history) ==
    [movement_intensity |-> movement_intensity(LastN(history, 20)),
     temperature_variation |-> temperature_variation(LastN(history, 20))]

\* A battery term that is the raw 1 + battery_trend * 10.
battery_score_unclamped(battery_trend) ==
    1000 + (10000 * battery_trend.num) \div battery_trend.den

\* _calculate_health_score, line 309: max(0, min(1, 1 + battery_trend * 10)),
\* in thousandths.
battery_score(battery_trend) ==
    Clamp(0, 1000, 1000 + (10000 * battery_trend.num) \div battery_trend.den)

\* line 312: 1 - min(1, movement_intensity / 100), the intensity in km.
movement_score(usage_patterns) ==
    1000 - Min(1000, usage_patterns.movement_intensity \div 100000)

\* line 313: 1 - min(1, temperature_variation / 20).
temp_score(usage_patterns) ==
    1000 - Min(1000, usage_patterns.temperature_variation \div 2)

\* A health score without the base term.
calculate_health_score_no_base(battery_trend, usage_patterns) ==
    LET usage_score == (movement_score(usage_patterns) + temp_score(usage_patterns)) \div 2
    IN Clamp(0, 1000, (battery_score(battery_trend) * 4 + usage_score * 3) \div 10)

\* PredictiveMaintenance._calculate_health_score, in thousandths.
calculate_health_score(battery_trend, usage_patterns) ==
    LET usage_score == (movement_score(usage_patterns) + temp_score(usage_patterns)) \div 2
    IN Clamp(0, 1000, (battery_score(battery_trend) * 4 + usage_score * 3) \div 10 + 300)

\* A horizon read off the score as reported, rounded to two decimals.
days_until_maintenance_rounded(health_score) ==
    IF (health_score + 5) \div 10 < 30 THEN 7
    ELSE IF (health_score + 5) \div 10 < 60 THEN 30 ELSE 90

\* analyze_health_trends, lines 197-202: the horizon in days, from the score
\* as computed (in thousandths), before it is rounded.
days_until_maintenance(health_score) ==
    IF health_score < 300 THEN 7 ELSE IF health_score < 600 THEN 30 ELSE 90

\* PredictiveMaintenance._generate_maintenance_actions
generate_maintenance_actions(health_score, battery_trend) ==
    (IF health_score < 300
     THEN <<"Immediate battery check", "Full diagnostic", "Consider replacement">>
     ELSE IF health_score < 600
     THEN <<"Scheduled maintenance", "Battery calibration", "Firmware update">>
     ELSE <<"Routine check">>)
    \o (IF 2 * battery_trend.num < -battery_trend.den
        THEN <<"Battery replacement recommended">> ELSE <<>>)

\* The health score of analyze_health_trends for a history of >= 5 points.
health_score_of(history) ==
    calculate_health_score(battery_slope(history), analyze_usage_patterns(history))

\* PredictiveMaintenance.analyze_health_trends for >= 5 points: the
\* prediction.  health_score is round(score, 2), in hundredths.
analyze_health_trends(device_id, history) ==
    [device_id |-> device_id,
     health_score |-> (health_score_of(history) + 5) \div 10,
     predicted_maintenance_date |->
         [from |-> now, days |-> days_until_maintenance(health_score_of(history))],
     confidence |-> 85,
     recommended_actions |->
         generate_maintenance_actions(health_score_of(history), battery_slope(history)),
     battery_degradation_rate |->
         (10000 * battery_slope(history).num) \div battery_slope(history).den]

\* A predictor that answers for a history of any length.
analyze_health_trends_always(device_id, history) ==
    <<analyze_health_trends(device_id, history)>>

\* PredictiveMaintenance.analyze_health_trends: the value returned, <<>> for
\* None and <<prediction>> for a prediction.
analyze_health_trends_result(device_id, history) ==
    IF Len(history) < MinHealthPoints THEN <<>>
    ELSE <<analyze_health_trends(device_id, history)>>

\* ------------------------------------------------------- geofence engine
\* check_geofence_breach, lines 95-99: the containment computed for a position.
computed_state(device_id, current_lat, current_lon) ==
    LET geofence == geofences[device_id]
        distance == calculate_distance(geofence.center_lat, geofence.center_lon,
                                       current_lat, current_lon)
    IN IF distance <= geofence.radius_km THEN "inside" ELSE "outside"

\* A containment update that is made only when an event is emitted.
geofence_state_after_if_alerting(device_id, current_lat, current_lon) ==
    IF device_id \notin DOMAIN geofences THEN device_geofence_state
    ELSE LET previous_state == Get(device_geofence_state, device_id, "inside")
             current_state == computed_state(device_id, current_lat, current_lon)
         IN IF previous_state # current_state
               /\ (IF current_state = "outside"
                   THEN geofences[device_id].alert_on_breach
                   ELSE geofences[device_id].alert_on_return)
            THEN Put(device_geofence_state, device_id, current_state)
            ELSE device_geofence_state

\* check_geofence_breach: device_geofence_state after the call.
geofence_state_after(device_id, current_lat, current_lon) ==
    IF device_id \notin DOMAIN geofences THEN device_geofence_state
    ELSE LET previous_state == Get(device_geofence_state, device_id, "inside")
             current_state == computed_state(device_id, current_lat, current_lon)
         IN IF previous_state # current_state
            THEN Put(device_geofence_state, device_id, current_state)
            ELSE device_geofence_state

\* check_geofence_breach, lines 104-124: the event returned for a transition
\* of a device in `geofence`.
geofence_event_for(geofence, device_id, previous_state, current_state, distance) ==
    [type |-> IF current_state = "outside" THEN "GEOFENCE_BREACH" ELSE "GEOFENCE_RETURN",
     device_id |-> device_id,
     previous_state |-> previous_state,
     current_state |-> current_state,
     distance_from_center_km |-> ((distance + 5000) \div 10000) * 10000,
     geofence_name |-> geofence.name,
     timestamp |-> now]

\* ... for the geofence the call fetched at app.py:90.
geofence_event(device_id, previous_state, current_state, distance) ==
    geofence_event_for(geofences[device_id], device_id, previous_state, current_state,
                       distance)

\* A level-triggered check: an event for every outside sample.
check_geofence_breach_level(device_id, current_lat, current_lon) ==
    IF device_id \notin DOMAIN geofences THEN <<>>
    ELSE LET geofence == geofences[device_id]
             distance == calculate_distance(geofence.center_lat, geofence.center_lon,
                                            current_lat, current_lon)
             previous_state == Get(device_geofence_state, device_id, "inside")
             current_state == computed_state(device_id, current_lat, current_lon)
         IN IF current_state = "outside" /\ geofence.alert_on_breach
            THEN <<geofence_event(device_id, previous_state, current_state, distance)>>
            ELSE IF previous_state # current_state /\ current_state = "inside"
                    /\ geofence.alert_on_return
            THEN <<geofence_event(device_id, previous_state, current_state, distance)>>
            ELSE <<>>

\* check_geofence_breach: the value returned, <<>> for None and <<event>>
\* for an event.
check_geofence_breach(device_id, current_lat, current_lon) ==
    IF device_id \notin DOMAIN geofences THEN <<>>
    ELSE LET geofence == geofences[device_id]
             distance == calculate_distance(geofence.center_lat, geofence.center_lon,
                                            current_lat, current_lon)
             previous_state == Get(device_geofence_state, device_id, "inside")
             current_state == computed_state(device_id, current_lat, current_lon)
         IN IF previous_state # current_state
            THEN IF current_state = "outside" /\ geofence.alert_on_breach
                 THEN <<geofence_event(device_id, previous_state, current_state, distance)>>
                 ELSE IF current_state = "inside" /\ geofence.alert_on_return
                 THEN <<geofence_event(device_id, previous_state, current_state, distance)>>
                 ELSE <<>>
            ELSE <<>>

\* --------------------------------------------------- telemetry pipeline
\* data.get("device_id") or data.get("id", "unknown"): an absent, null or empty
\* device_id is falsy, and the id field is then taken as it is.
resolve_device_id(data) ==
    IF "device_id" \in DOMAIN data /\ data.device_id \notin {"", None}
    THEN data.device_id
    ELSE Get(data, "id", "unknown")

\* The alert appended for a geofence event (original_handle_telemetry).
geofence_alert_record(data, device_id, protocol, event) ==
    [timestamp |-> now,
     device_id |-> device_id,
     device_type |-> Get(data, "device_type", "unknown"),
     type |-> event.type,
     detail |-> <<"Device moved", event.current_state, "geofence", event.geofence_name>>,
     distance_km |-> event.distance_from_center_km,
     protocol |-> protocol]

maintenance_alert_record(device_id, protocol, prediction) ==
    [timestamp |-> now,
     device_id |-> device_id,
     type |-> "PREDICTIVE_MAINTENANCE",
     detail |-> <<"Device health score:", prediction.health_score>>,
     predicted_maintenance |-> prediction.predicted_maintenance_date,
     recommended_actions |-> prediction.recommended_actions,
     protocol |-> protocol,
     severity |-> "high"]

\* The canonical record built by original_handle_telemetry.
canonical_record(data, device_id, protocol, geofence_state) ==
    [device_id |-> device_id,
     timestamp |-> Get(data, "timestamp", now),
     lat |-> Get(data, "lat", 0),
     lon |-> Get(data, "lon", 0),
     battery |-> Get(data, "battery", 0),
     temperature |-> Get(data, "temperature", 0),
     status |-> Get(data, "status", "OK"),
     device_type |-> Get(data, "device_type", "unknown"),
     sensor_data |-> Get(data, "sensor_data", "{}"),
     signal_strength |-> Get(data, "signal_strength", 0),
     protocol |-> protocol,
     received_at |-> Get(data, "received_at", NoneTs),
     geofence_state |-> geofence_state,
     edge_processed |-> TRUE,
     compressed |-> Get(data, "compressed", FALSE)]

\* A pipeline that registers no device.
auto_registered_never(data, device_id, protocol) == device_registry

\* original_handle_telemetry, lines 168-175: the assignment
\* device_registry[device_id] = {...} of the auto-registration.
auto_register(data, device_id, protocol) ==
    Put(device_registry, device_id,
        [device_type |-> Get(data, "device_type", "unknown"),
         protocol |-> protocol,
         firmware_version |-> "unknown",
         capabilities |-> {},
         registered_at |-> now,
         status |-> "active"])

\* original_handle_telemetry, lines 167-177: device_registry after the
\* auto-registration.
auto_registered(data, device_id, protocol) ==
    IF device_id \in DOMAIN device_registry THEN device_registry
    ELSE auto_register(data, device_id, protocol)

\* A trigger that holds for every prediction.
maintenance_alert_due_always(prediction) == TRUE

\* original_handle_telemetry, line 228: health_score < 0.4, on the rounded
\* score of the prediction (in hundredths).
maintenance_alert_due(prediction) == prediction.health_score < 40

\* A record built before the geofence check: the containment stored when
\* the sample arrived.
recorded_geofence_state_stale(device_id, current_lat, current_lon) ==
    Get(device_geofence_state, device_id, "unknown")

\* original_handle_telemetry, lines 183-212: the record is built after
\* check_geofence_breach, and its geofence_state is read from the containment
\* that call left.
recorded_geofence_state(device_id, current_lat, current_lon) ==
    Get(geofence_state_after(device_id, current_lat, current_lon), device_id, "unknown")

\* original_handle_telemetry, line 222: the analytics trigger.
run_analysis(device_history) == Len(device_history) % AnalysisEvery = 0

\* An append to a history without capacity.
history_append_unbounded(history, record) == Append(history, record)

\* telemetry[device_id].append(record) on deque(maxlen=500)
history_append(history, record) == DequeAppend(history, record, HistoryCap)

\* original_handle_telemetry from the return of check_geofence_breach on:
\* `geofence_alert` is the value it returned, `state_after` the containment
\* states it left, `geofence_state` the state the record reads.
handle_telemetry_after_check(data, result, geofence_alert, state_after, geofence_state) ==
    LET device_id == resolve_device_id(data)
        protocol == Get(data, "protocol", "unknown")
        alerts1 == IF geofence_alert # <<>>
                   THEN alerts_append(alerts,
                            geofence_alert_record(data, device_id, protocol, geofence_alert[1]))
                   ELSE alerts
        record == canonical_record(data, device_id, protocol, geofence_state)
        device_history == history_append(Get(telemetry, device_id, <<>>), record)
        analyse == run_analysis(device_history)
        has_prediction == analyse /\ Len(device_history) >= MinHealthPoints
        prediction == analyze_health_trends(device_id, device_history)
    IN IF float_raises(data, {"battery", "temperature"})
       THEN \* the record's float(...) raises at app.py:204-205, after the
            \* auto-registration, the geofence check and its alert
            /\ device_registry' = auto_registered(data, device_id, protocol)
            /\ device_geofence_state' = state_after
            /\ alerts' = alerts1
            /\ UNCHANGED <<assets, telemetry, maintenance_predictions,
                           device_health_scores, recorded, analysis_runs>>
            /\ result = "raise"
       ELSE /\ device_registry' = auto_registered(data, device_id, protocol)
            /\ device_geofence_state' = state_after
            /\ assets' = Put(assets, device_id, record)
            /\ telemetry' = Put(telemetry, device_id, device_history)
            /\ maintenance_predictions' =
                   IF has_prediction THEN Put(maintenance_predictions, device_id, prediction)
                   ELSE maintenance_predictions
            /\ device_health_scores' =
                   IF has_prediction
                   THEN Put(device_health_scores, device_id, health_score_of(device_history))
                   ELSE device_health_scores
            /\ alerts' = IF has_prediction /\ maintenance_alert_due(prediction)
                         THEN alerts_append(alerts1,
                                  maintenance_alert_record(device_id, protocol, prediction))
                         ELSE alerts1
            /\ recorded' = Put(recorded, device_id, Get(recorded, device_id, 0) + 1)
            /\ analysis_runs' =
                   IF analyse
                   THEN Put(analysis_runs, device_id, Get(analysis_runs, device_id, 0) + 1)
                   ELSE analysis_runs
            /\ result = (IF industrial_manager = "ready"
                         THEN industrial_handle_telemetry(protocol) ELSE "ok")

\* original_handle_telemetry(data): `result` is "ok" when it returns and
\* "raise" when it raises: in a float() conversion of the position or of the
\* record, or in the forwarding after the sample is recorded.
original_handle_telemetry(data, result) ==
    LET device_id == resolve_device_id(data)
        current_lat == Get(data, "lat", 0)
        current_lon == Get(data, "lon", 0)
    IN IF float_raises(data, {"lat", "lon"})
       THEN \* float(...) raises at app.py:180-181, after the auto-registration
            /\ device_registry' = auto_registered(data, device_id,
                                                  Get(data, "protocol", "unknown"))
            /\ UNCHANGED <<device_geofence_state, assets, telemetry, alerts,
                           maintenance_predictions, device_health_scores, recorded,
                           analysis_runs>>
            /\ result = "raise"
       ELSE handle_telemetry_after_check(data, result,
                check_geofence_breach(device_id, current_lat, current_lon),
                geofence_state_after(device_id, current_lat, current_lon),
                recorded_geofence_state(device_id, current_lat, current_lon))

\* enhanced_handle_telemetry(data), the pipeline entry point.  `outcome` is
\* "skipped" (the pre-filter returned early), "recorded", or "raised";
\* `is_anomaly` is what detect_anomalies returned.
enhanced_handle_telemetry(data, outcome, is_anomaly) ==
    LET device_id == resolve_device_id(data)
        has_previous == Get(telemetry, device_id, <<>>) # <<>>
        previous_data == IF has_previous THEN Last(telemetry[device_id]) ELSE data
        c == compress_telemetry(data, has_previous, previous_data)
    IN  /\ is_anomaly \in detect_anomalies_results(device_id)
        /\ pattern_cache' = detect_anomalies_cache(device_id, data)
        /\ UNCHANGED anomaly_models
        /\ IF ~c.should_process /\ has_previous
           THEN /\ outcome = "skipped"
                /\ UNCHANGED <<assets, telemetry, alerts, device_registry,
                               device_geofence_state, edge_insights,
                               maintenance_predictions, device_health_scores,
                               recorded, analysis_runs>>
           ELSE /\ edge_insights' = Put(edge_insights, device_id,
                        [last_processed |-> now,
                         anomaly_detected |-> is_anomaly,
                         data_compressed |-> ~c.is_none])
                /\ \E result \in {"ok", "raise"} :
                      /\ original_handle_telemetry(c.data, result)
                      /\ outcome = (IF result = "ok" THEN "recorded" ELSE "raised")

\* ---------------------------------------------------------------- adapters
\* init_protocol_router, first half: ProtocolRouter(...) and start_all().
\* connect_and_subscribe catches a failed connection; `connected` is its result.
InitProtocolRouter(connected) ==
    /\ protocol_router = "none"
    /\ protocol_router' = "ready"
    /\ mqtt_connected' = connected
    /\ last_op' = [op |-> "init_router"]
    /\ UNCHANGED <<now, next_uuid, stores, industrial_manager, lorawan_devices,
                   recorded, analysis_runs, last_msg, registrations, threads>>

\* init_protocol_router, second half: initialize_industrial_protocols(...).
InitIndustrial ==
    /\ protocol_router = "ready"
    /\ industrial_manager = "none"
    /\ industrial_manager' = "ready"
    /\ lorawan_devices' = {}
    /\ last_op' = [op |-> "init_industrial"]
    /\ UNCHANGED <<now, next_uuid, stores, protocol_router, mqtt_connected,
                   recorded, analysis_runs, last_msg, registrations, threads>>

Tick ==
    /\ now' = now + 1
    /\ last_op' = [op |-> "tick"]
    /\ UNCHANGED <<next_uuid, stores, adapters, recorded, analysis_runs, last_msg,
                   registrations, threads>>

\* The adapter's tagging of a message: handle_http_telemetry,
\* MQTTHandler._on_message, coap_telemetry.
tagged(raw, adapter) == Put(Put(raw, "protocol", adapter), "received_at", now)

\* A message arrives at an adapter, which tags it and calls the pipeline
\* entry point: POST /http/telemetry, POST /coap/telemetry, or an MQTT
\* message on fleet/+/telemetry (delivered only while the client is connected).
SubmitTelemetry(adapter, raw) ==
    LET device_id == resolve_device_id(raw)
    IN /\ adapter \in {"http", "coap", "mqtt"}
       /\ adapter = "mqtt" => (protocol_router = "ready" /\ mqtt_connected)
       /\ UNCHANGED <<now, next_uuid, adapters, device_configs, device_commands,
                      geofences, registrations, threads>>
       /\ IF adapter = "http" /\ protocol_router = "none"
          THEN /\ last_op' = [op |-> "telemetry", adapter |-> adapter,
                              device |-> device_id, repeat |-> FALSE, code |-> 500,
                              outcome |-> "not ready"]
               /\ UNCHANGED <<assets, telemetry, alerts, device_registry,
                              device_geofence_state, edge_insights,
                              maintenance_predictions, pattern_cache, anomaly_models,
                              device_health_scores, recorded, analysis_runs,
                              last_msg>>
          ELSE \E outcome \in {"skipped", "recorded", "raised"}, is_anomaly \in BOOLEAN :
                 /\ enhanced_handle_telemetry(tagged(raw, adapter), outcome, is_anomaly)
                 /\ last_msg' = Put(last_msg, device_id, [raw |-> raw, adapter |-> adapter])
                 /\ last_op' = [op |-> "telemetry", adapter |-> adapter,
                                device |-> device_id,
                                repeat |-> (device_id \in DOMAIN last_msg /\
                                    last_msg[device_id] = [raw |-> raw, adapter |-> adapter]),
                                code |-> IF outcome = "raised" /\ adapter # "mqtt"
                                         THEN 400 ELSE 200,
                                outcome |-> outcome, is_anomaly |-> is_anomaly]

\* The pipeline as two steps of a thread, for callers that run concurrently
\* (no lock is taken anywhere in the pipeline).  BeginTelemetry is
\* enhanced_handle_telemetry from its entry up to the read of the device's
\* containment state in check_geofence_breach (app.py:98); the thread keeps
\* the geofence, the state it read and the state it computed as locals.
BeginTelemetry(t, adapter, raw) ==
    LET data == tagged(raw, adapter)
        device_id == resolve_device_id(data)
        has_previous == Get(telemetry, device_id, <<>>) # <<>>
        previous_data == IF has_previous THEN Last(telemetry[device_id]) ELSE data
        c == compress_telemetry(data, has_previous, previous_data)
        fenced == device_id \in DOMAIN geofences
    IN /\ threads[t].pc = "idle"
       /\ adapter \in {"http", "coap", "mqtt"}
       /\ adapter = "http" => protocol_router = "ready"
       /\ adapter = "mqtt" => (protocol_router = "ready" /\ mqtt_connected)
       /\ \E is_anomaly \in detect_anomalies_results(device_id) :
             IF ~c.should_process /\ has_previous
             THEN /\ threads' = [threads EXCEPT ![t] = [pc |-> "done", adapter |-> adapter,
                                                         data |-> data]]
                  /\ last_op' = [op |-> "telemetry", adapter |-> adapter,
                                 device |-> device_id, repeat |-> FALSE, code |-> 200,
                                 outcome |-> "skipped", is_anomaly |-> is_anomaly]
                  /\ UNCHANGED edge_insights
             ELSE /\ edge_insights' = Put(edge_insights, device_id,
                          [last_processed |-> now,
                           anomaly_detected |-> is_anomaly,
                           data_compressed |-> ~c.is_none])
                  /\ threads' = [threads EXCEPT ![t] =
                          [pc |-> "checked", adapter |-> adapter, data |-> c.data,
                           is_anomaly |-> is_anomaly,
                           geofence |-> IF fenced THEN <<geofences[device_id]>> ELSE <<>>,
                           previous_state |-> Get(device_geofence_state, device_id, "inside"),
                           current_state |->
                               IF fenced
                               THEN computed_state(device_id, Get(c.data, "lat", 0),
                                                   Get(c.data, "lon", 0))
                               ELSE "unknown"]]
                  /\ last_op' = [op |-> "telemetry_check", adapter |-> adapter,
                                 device |-> device_id]
       /\ pattern_cache' = detect_anomalies_cache(device_id, data)
       /\ last_msg' = Put(last_msg, device_id, [raw |-> raw, adapter |-> adapter])
       /\ UNCHANGED <<now, next_uuid, assets, telemetry, alerts, device_registry,
                      device_configs, device_commands, geofences, device_geofence_state,
                      maintenance_predictions, anomaly_models, device_health_scores,
                      adapters, recorded, analysis_runs, registrations>>

\* FinishTelemetry is the rest of the call: the comparison of the state read
\* with the state computed, the write of the containment state and the
\* event (app.py:101-126), and original_handle_telemetry from there to its
\* end.  An exception reaches the route (400) or is caught by the MQTT
\* client's callback.
FinishTelemetry(t) ==
    LET th == threads[t]
        device_id == resolve_device_id(th.data)
        changed == th.geofence # <<>> /\ th.previous_state # th.current_state
        distance == calculate_distance(th.geofence[1].center_lat, th.geofence[1].center_lon,
                                       Get(th.data, "lat", 0), Get(th.data, "lon", 0))
        geofence_alert ==
            IF changed /\ (IF th.current_state = "outside"
                           THEN th.geofence[1].alert_on_breach
                           ELSE th.geofence[1].alert_on_return)
            THEN <<geofence_event_for(th.geofence[1], device_id, th.previous_state,
                                      th.current_state, distance)>>
            ELSE <<>>
        state_after == IF changed
                       THEN Put(device_geofence_state, device_id, th.current_state)
                       ELSE device_geofence_state
    IN /\ th.pc = "checked"
       /\ \E result \in {"ok", "raise"} :
             /\ handle_telemetry_after_check(th.data, result, geofence_alert, state_after,
                                             Get(state_after, device_id, "unknown"))
             /\ last_op' = [op |-> "telemetry", adapter |-> th.adapter,
                            device |-> device_id, repeat |-> FALSE,
                            code |-> IF result = "raise" /\ th.adapter # "mqtt"
                                     THEN 400 ELSE 200,
                            outcome |-> IF result = "ok" THEN "recorded" ELSE "raised",
                            is_anomaly |-> th.is_anomaly]
       /\ threads' = [threads EXCEPT ![t].pc = "done"]
       /\ UNCHANGED <<now, next_uuid, device_configs, device_commands, geofences,
                      edge_insights, pattern_cache, anomaly_models, adapters, last_msg,
                      registrations>>

\* The pipeline in four steps of a thread, split where a call reads or
\* writes the registry, the snapshot and the history in separate statements.
\* EnterPipeline is enhanced_handle_telemetry and original_handle_telemetry
\* up to the membership test `device_id not in device_registry` (app.py:167),
\* whose result the thread keeps as the local `registered`.
EnterPipeline(t, adapter, raw) ==
    LET data == tagged(raw, adapter)
        device_id == resolve_device_id(data)
        has_previous == Get(telemetry, device_id, <<>>) # <<>>
        previous_data == IF has_previous THEN Last(telemetry[device_id]) ELSE data
        c == compress_telemetry(data, has_previous, previous_data)
    IN /\ threads[t].pc = "idle"
       /\ adapter \in {"http", "coap", "mqtt"}
       /\ adapter = "http" => protocol_router = "ready"
       /\ adapter = "mqtt" => (protocol_router = "ready" /\ mqtt_connected)
       /\ \E is_anomaly \in detect_anomalies_results(device_id) :
             IF ~c.should_process /\ has_previous
             THEN /\ threads' = [threads EXCEPT ![t] = [pc |-> "done", adapter |-> adapter,
                                                         data |-> data]]
                  /\ last_op' = [op |-> "telemetry", adapter |-> adapter,
                                 device |-> device_id, repeat |-> FALSE, code |-> 200,
                                 outcome |-> "skipped", is_anomaly |-> is_anomaly]
                  /\ UNCHANGED edge_insights
             ELSE /\ edge_insights' = Put(edge_insights, device_id,
                          [last_processed |-> now,
                           anomaly_detected |-> is_anomaly,
                           data_compressed |-> ~c.is_none])
                  /\ threads' = [threads EXCEPT ![t] =
                          [pc |-> "entered", adapter |-> adapter, data |-> c.data,
                           is_anomaly |-> is_anomaly,
                           registered |-> device_id \in DOMAIN device_registry]]
                  /\ last_op' = [op |-> "telemetry_enter", adapter |-> adapter,
                                 device |-> device_id]
       /\ pattern_cache' = detect_anomalies_cache(device_id, data)
       /\ last_msg' = Put(last_msg, device_id, [raw |-> raw, adapter |-> adapter])
       /\ UNCHANGED <<now, next_uuid, assets, telemetry, alerts, device_registry,
                      device_configs, device_commands, geofences, device_geofence_state,
                      maintenance_predictions, anomaly_models, device_health_scores,
                      adapters, recorded, analysis_runs, registrations>>

\* AutoRegister is the body of that test (app.py:168-176): the assignment
\* of a new record, executed when the test found the device absent.
AutoRegister(t) ==
    LET th == threads[t]
        device_id == resolve_device_id(th.data)
        protocol == Get(th.data, "protocol", "unknown")
    IN /\ th.pc = "entered"
       /\ device_registry' = IF th.registered THEN device_registry
                             ELSE auto_register(th.data, device_id, protocol)
       /\ threads' = [threads EXCEPT ![t].pc = "registered"]
       /\ last_op' = [op |-> "telemetry_register", adapter |-> th.adapter,
                      device |-> device_id, wrote |-> ~th.registered]
       /\ UNCHANGED <<now, next_uuid, assets, telemetry, alerts, device_configs,
                      device_commands, geofences, device_geofence_state, edge_insights,
                      maintenance_predictions, pattern_cache, anomaly_models,
                      device_health_scores, adapters, recorded, analysis_runs, last_msg,
                      registrations>>

\* RecordSnapshot is app.py:180-217: the geofence check and its alert, the
\* canonical record, and the assignment assets[device_id] = record.  The
\* thread keeps the record as a local.
RecordSnapshot(t) ==
    LET th == threads[t]
        device_id == resolve_device_id(th.data)
        protocol == Get(th.data, "protocol", "unknown")
        current_lat == Get(th.data, "lat", 0)
        current_lon == Get(th.data, "lon", 0)
        geofence_alert == check_geofence_breach(device_id, current_lat, current_lon)
        record == canonical_record(th.data, device_id, protocol,
                      recorded_geofence_state(device_id, current_lat, current_lon))
    IN /\ th.pc = "registered"
       /\ device_geofence_state' = geofence_state_after(device_id, current_lat, current_lon)
       /\ alerts' = IF geofence_alert # <<>>
                    THEN alerts_append(alerts,
                             geofence_alert_record(th.data, device_id, protocol,
                                                   geofence_alert[1]))
                    ELSE alerts
       /\ assets' = Put(assets, device_id, record)
       /\ threads' = [threads EXCEPT ![t] =
                         [pc |-> "snapshot", adapter |-> th.adapter, data |-> th.data,
                          is_anomaly |-> th.is_anomaly, registered |-> th.registered,
                          record |-> record]]
       /\ last_op' = [op |-> "telemetry_snapshot", adapter |-> th.adapter,
                      device |-> device_id]
       /\ UNCHANGED <<now, next_uuid, telemetry, device_registry, device_configs,
                      device_commands, geofences, edge_insights, maintenance_predictions,
                      pattern_cache, anomaly_models, device_health_scores, adapters,
                      recorded, analysis_runs, last_msg, registrations>>

\* AppendHistory is app.py:218-243: telemetry[device_id].append(record), the
\* analytics and the forwarding to the industrial layer.
AppendHistory(t) ==
    LET th == threads[t]
        device_id == resolve_device_id(th.data)
        protocol == Get(th.data, "protocol", "unknown")
        device_history == history_append(Get(telemetry, device_id, <<>>), th.record)
        analyse == run_analysis(device_history)
        has_prediction == analyse /\ Len(device_history) >= MinHealthPoints
        prediction == analyze_health_trends(device_id, device_history)
    IN /\ th.pc = "snapshot"
       /\ telemetry' = Put(telemetry, device_id, device_history)
       /\ maintenance_predictions' =
              IF has_prediction THEN Put(maintenance_predictions, device_id, prediction)
              ELSE maintenance_predictions
       /\ device_health_scores' =
              IF has_prediction
              THEN Put(device_health_scores, device_id, health_score_of(device_history))
              ELSE device_health_scores
       /\ alerts' = IF has_prediction /\ maintenance_alert_due(prediction)
                    THEN alerts_append(alerts,
                             maintenance_alert_record(device_id, protocol, prediction))
                    ELSE alerts
       /\ recorded' = Put(recorded, device_id, Get(recorded, device_id, 0) + 1)
       /\ analysis_runs' =
              IF analyse
              THEN Put(analysis_runs, device_id, Get(analysis_runs, device_id, 0) + 1)
              ELSE analysis_runs
       /\ \E result \in {"ok", "raise"} :
             /\ result = (IF industrial_manager = "ready"
                          THEN industrial_handle_telemetry(protocol) ELSE "ok")
             /\ last_op' = [op |-> "telemetry", adapter |-> th.adapter,
                            device |-> device_id, repeat |-> FALSE,
                            code |-> IF result = "raise" /\ th.adapter # "mqtt"
                                     THEN 400 ELSE 200,
                            outcome |-> IF result = "ok" THEN "recorded" ELSE "raised",
                            is_anomaly |-> th.is_anomaly]
       /\ threads' = [threads EXCEPT ![t].pc = "done"]
       /\ UNCHANGED <<now, next_uuid, assets, device_registry, device_configs,
                      device_commands, geofences, device_geofence_state, edge_insights,
                      pattern_cache, anomaly_models, adapters, last_msg, registrations>>

\* The industrial-protocol layer hands a sample tagged with its protocol to
\* the telemetry callback it was constructed with, enhanced_handle_telemetry
\* (initialize_industrial_protocols(enhanced_handle_telemetry, handle_alert)).
\* `propagated` says that the call raised instead of returning.
IndustrialTelemetry(protocol, raw) ==
    LET device_id == resolve_device_id(raw)
    IN /\ protocol \in IndustrialProtocol
       /\ industrial_manager = "ready"
       /\ UNCHANGED <<now, next_uuid, adapters, device_configs, device_commands,
                      geofences, registrations, threads>>
       /\ \E outcome \in {"skipped", "recorded", "raised"}, is_anomaly \in BOOLEAN :
             /\ enhanced_handle_telemetry(Put(raw, "protocol", protocol), outcome, is_anomaly)
             /\ last_msg' = Put(last_msg, device_id, [raw |-> raw, adapter |-> protocol])
             /\ last_op' = [op |-> "telemetry", adapter |-> protocol,
                            device |-> device_id,
                            repeat |-> (device_id \in DOMAIN last_msg /\
                                last_msg[device_id] = [raw |-> raw, adapter |-> protocol]),
                            propagated |-> (outcome = "raised"),
                            outcome |-> outcome, is_anomaly |-> is_anomaly]

\* handle_alert: the record stored for an alert an adapter submits.
alert_record(data) ==
    [timestamp |-> now,
     device_id |-> Get(data, "device_id", "unknown"),
     device_type |-> Get(data, "device_type", "unknown"),
     type |-> Get(data, "type", "UNKNOWN_ALERT"),
     detail |-> Get(data, "detail", ""),
     protocol |-> Get(data, "protocol", "unknown"),
     received_at |-> Get(data, "received_at", NoneTs),
     severity |-> Get(data, "severity", "medium")]

\* An alert arrives at an adapter, which tags it and calls handle_alert:
\* POST /http/alerts (500 while the protocol router is not ready), or an MQTT
\* message on fleet/+/alerts (delivered only while the client is connected).
SubmitAlert(adapter, raw) ==
    /\ adapter \in {"http", "mqtt"}
    /\ adapter = "mqtt" => (protocol_router = "ready" /\ mqtt_connected)
    /\ IF adapter = "http" /\ protocol_router = "none"
       THEN /\ last_op' = [op |-> "alert", adapter |-> adapter, code |-> 500]
            /\ UNCHANGED alerts
       ELSE /\ alerts' = alerts_append(alerts, alert_record(tagged(raw, adapter)))
            /\ last_op' = [op |-> "alert", adapter |-> adapter, code |-> 200]
    /\ UNCHANGED <<now, next_uuid, assets, telemetry, device_registry, device_configs,
                   device_commands, geofences, device_geofence_state, edge_insights,
                   maintenance_predictions, pattern_cache, anomaly_models,
                   device_health_scores, adapters, recorded, analysis_runs, last_msg,
                   registrations, threads>>

\* ------------------------------------------------------- device registry
\* dict.update
Merge(f, g) == [k \in (DOMAIN f) \cup (DOMAIN g) |-> IF k \in DOMAIN g THEN g[k] ELSE f[k]]

default_config(data) ==
    [telemetry_interval |-> Get(data, "telemetry_interval", 30),
     heartbeat_interval |-> Get(data, "heartbeat_interval", 60),
     alert_thresholds |-> [battery |-> 20, temperature |-> 40, signal_strength |-> -100]]

\* A registration that merges the request into the record and the config
\* the device already has.
RegisterDeviceMerging(device_id, data) ==
    /\ device_registry' = Put(device_registry, device_id,
           Merge([device_type |-> "unknown", protocol |-> "unknown",
                  firmware_version |-> "1.0.0", capabilities |-> {},
                  registered_at |-> now, status |-> "active"],
                 Merge(Get(device_registry, device_id, EmptyDict),
                       [k \in DOMAIN data \cap {"device_type", "protocol",
                                                "firmware_version", "capabilities"}
                           |-> data[k]])))
    /\ device_configs' = Put(device_configs, device_id,
           Merge(default_config(data), Get(device_configs, device_id, EmptyDict)))
    /\ lorawan_devices' =
           IF industrial_manager = "ready" /\ Get(data, "protocol", "unknown") = "lorawan"
           THEN lorawan_devices \cup {DevEui(device_id)}
           ELSE lorawan_devices
    /\ registrations' = registrations + 1
    /\ UNCHANGED threads
    /\ last_op' = [op |-> "register", device |-> device_id, code |-> 200,
                   request |-> data]
    /\ UNCHANGED <<now, next_uuid, assets, telemetry, alerts, device_commands,
                   geofences, device_geofence_state, edge_insights,
                   maintenance_predictions, pattern_cache, anomaly_models,
                   device_health_scores, protocol_router, mqtt_connected,
                   industrial_manager, recorded, analysis_runs, last_msg>>

\* POST /api/devices/<device_id>: register_device
RegisterDevice(device_id, data) ==
    /\ device_registry' = Put(device_registry, device_id,
           [device_type |-> Get(data, "device_type", "unknown"),
            protocol |-> Get(data, "protocol", "unknown"),
            firmware_version |-> Get(data, "firmware_version", "1.0.0"),
            capabilities |-> Get(data, "capabilities", {}),
            registered_at |-> now,
            status |-> "active"])
    /\ device_configs' = Put(device_configs, device_id, default_config(data))
    /\ lorawan_devices' =
           IF industrial_manager = "ready" /\ Get(data, "protocol", "unknown") = "lorawan"
           THEN lorawan_devices \cup {DevEui(device_id)}
           ELSE lorawan_devices
    /\ registrations' = registrations + 1
    /\ UNCHANGED threads
    /\ last_op' = [op |-> "register", device |-> device_id, code |-> 200,
                   request |-> data]
    /\ UNCHANGED <<now, next_uuid, assets, telemetry, alerts, device_commands,
                   geofences, device_geofence_state, edge_insights,
                   maintenance_predictions, pattern_cache, anomaly_models,
                   device_health_scores, protocol_router, mqtt_connected,
                   industrial_manager, recorded, analysis_runs, last_msg>>

\* An error answer that leaves a registry entry behind.
RejectedButRegistered(op, device_id, code) ==
    /\ last_op' = [op |-> op, device |-> device_id, code |-> code]
    /\ device_registry' = Put(device_registry, device_id,
           [device_type |-> "unknown", protocol |-> "unknown",
            firmware_version |-> "unknown", capabilities |-> {},
            registered_at |-> now, status |-> "active"])
    /\ UNCHANGED <<now, next_uuid, assets, telemetry, alerts, device_configs,
                   device_commands, geofences, device_geofence_state, edge_insights,
                   maintenance_predictions, pattern_cache, anomaly_models,
                   device_health_scores, adapters, recorded, analysis_runs,
                   last_msg, registrations, threads>>

\* An error answer given after the request's writes, not before them.
RejectedAfterWrite(op, device_id, code) ==
    /\ last_op' = [op |-> op, device |-> device_id, code |-> code]
    /\ device_geofence_state' = Put(device_geofence_state, device_id, "inside")
    /\ device_commands' = Put(device_commands, device_id,
           Get(device_commands, device_id, <<>>))
    /\ UNCHANGED <<now, next_uuid, assets, telemetry, alerts, device_registry,
                   device_configs, geofences, edge_insights, maintenance_predictions,
                   pattern_cache, anomaly_models, device_health_scores, adapters,
                   recorded, analysis_runs, last_msg, registrations, threads>>

\* A request that is answered with an error and changes no store.
Rejected(op, device_id, code) ==
    /\ last_op' = [op |-> op, device |-> device_id, code |-> code]
    /\ UNCHANGED <<now, next_uuid, stores, adapters, recorded, analysis_runs,
                   last_msg, registrations, threads>>

\* ----------------------------------------------------- command lifecycle
\* A command built with an identifier that is not fresh.
new_command_reused_id(type, key, value) ==
    [command_id |-> 1,
     type |-> type,
     timestamp |-> now,
     status |-> "pending",
     ack_timestamp |-> NoneTs] @@ (key :> value)

\* device_commands_endpoint, lines 575-581, and device_config, lines 540-546:
\* the command as it is appended (ack_timestamp is absent until ack_command).
new_command(type, key, value) ==
    [command_id |-> next_uuid,
     type |-> type,
     timestamp |-> now,
     status |-> "pending",
     ack_timestamp |-> NoneTs] @@ (key :> value)

\* client.publish(...) inside the try block of device_commands_endpoint:
\* protocol_router is None until init_protocol_router has run, and the
\* attribute access raises; paho's publish returns (its result is not
\* looked at) whether or not the client is connected.
mqtt_publish_raises == protocol_router = "none"

\* A dispatch that marks every command "sent".
dispatch_status_optimistic(device_id) == "sent"

\* device_commands_endpoint, lines 586-607: the status of the new command
\* after the attempt to send it.
dispatch_status(device_id) ==
    LET protocol == device_registry[device_id].protocol
    IN IF protocol = "mqtt"
       THEN IF mqtt_publish_raises THEN "pending" ELSE "sent"
       ELSE IF industrial_manager = "ready" /\ protocol \in IndustrialProtocol
       THEN IF send_command(device_id, protocol) THEN "sent" ELSE "pending"
       ELSE "pending"

\* POST /api/devices/<device_id>/commands
EnqueueCommand(device_id, data) ==
    IF device_id \notin DOMAIN device_registry
    THEN Rejected("enqueue", device_id, 404)
    ELSE IF "command" \notin DOMAIN data
    THEN Rejected("enqueue", device_id, 400)
    ELSE LET command == [new_command(data.command, "parameters",
                                     Get(data, "parameters", "{}"))
                         EXCEPT !.status = dispatch_status(device_id)]
         IN /\ device_commands' = Put(device_commands, device_id,
                    Append(Get(device_commands, device_id, <<>>), command))
            /\ next_uuid' = next_uuid + 1
            /\ last_op' = [op |-> "enqueue", device |-> device_id, code |-> 200,
                           command_id |-> command.command_id,
                           status |-> command.status]
            /\ UNCHANGED <<now, assets, telemetry, alerts, device_registry,
                           device_configs, geofences, device_geofence_state,
                           edge_insights, maintenance_predictions, pattern_cache,
                           anomaly_models, device_health_scores, adapters, recorded,
                           analysis_runs, last_msg, registrations, threads>>

\* PUT /api/devices/<device_id>/config.  device_configs[device_id].update
\* raises KeyError (a 500 response) for a device without a config; the result
\* of the industrial send is not looked at.
UpdateConfig(device_id, new_config) ==
    IF device_id \notin DOMAIN device_registry
    THEN Rejected("config", device_id, 404)
    ELSE IF new_config = EmptyDict
    THEN Rejected("config", device_id, 400)
    ELSE IF device_id \notin DOMAIN device_configs
    THEN Rejected("config", device_id, 500)
    ELSE /\ device_configs' = Put(device_configs, device_id,
                                  Merge(device_configs[device_id], new_config))
         /\ device_commands' = Put(device_commands, device_id,
                Append(Get(device_commands, device_id, <<>>),
                       new_command("config_update", "config", new_config)))
         /\ next_uuid' = next_uuid + 1
         /\ last_op' = [op |-> "config", device |-> device_id, code |-> 200,
                        command_id |-> next_uuid, status |-> "pending"]
         /\ UNCHANGED <<now, assets, telemetry, alerts, device_registry, geofences,
                        device_geofence_state, edge_insights, maintenance_predictions,
                        pattern_cache, anomaly_models, device_health_scores, adapters,
                        recorded, analysis_runs, last_msg, registrations, threads>>

\* The send-command request as two steps of a worker thread of the HTTP
\* server.  AppendCommand is device_commands_endpoint up to the hand-over to
\* the adapter (app.py:562-592, 601): the command is in the queue as
\* "pending" and the thread keeps, as locals, its id and the status the
\* hand-over leads to.
AppendCommand(t, device_id, data) ==
    IF device_id \notin DOMAIN device_registry
    THEN threads[t].pc \in {"idle", "done"} /\ Rejected("enqueue", device_id, 404)
    ELSE IF "command" \notin DOMAIN data
    THEN threads[t].pc \in {"idle", "done"} /\ Rejected("enqueue", device_id, 400)
    ELSE LET command == new_command(data.command, "parameters",
                                    Get(data, "parameters", "{}"))
         IN /\ threads[t].pc \in {"idle", "done"}
            /\ device_commands' = Put(device_commands, device_id,
                    Append(Get(device_commands, device_id, <<>>), command))
            /\ next_uuid' = next_uuid + 1
            /\ threads' = [threads EXCEPT ![t] =
                              [pc |-> "appended", device |-> device_id,
                               command_id |-> command.command_id,
                               status |-> dispatch_status(device_id)]]
            /\ last_op' = [op |-> "enqueue_append", device |-> device_id,
                           command_id |-> command.command_id]
            /\ UNCHANGED <<now, assets, telemetry, alerts, device_registry,
                           device_configs, geofences, device_geofence_state,
                           edge_insights, maintenance_predictions, pattern_cache,
                           anomaly_models, device_health_scores, adapters, recorded,
                           analysis_runs, last_msg, registrations>>

\* MarkSent is the rest of the request: command["status"] = "sent" on the
\* command object the thread appended, when the hand-over succeeded
\* (app.py:593, 603), and the response.
MarkSent(t) ==
    LET th == threads[t]
        queue == device_commands[th.device]
        index == CHOOSE i \in 1..Len(queue) : queue[i].command_id = th.command_id
    IN /\ th.pc = "appended"
       /\ device_commands' =
              IF th.status = "sent"
              THEN Put(device_commands, th.device,
                       [i \in 1..Len(queue) |->
                           IF queue[i].command_id = th.command_id
                           THEN [queue[i] EXCEPT !.status = "sent"]
                           ELSE queue[i]])
              ELSE device_commands
       /\ threads' = [threads EXCEPT ![t].pc = "done"]
       /\ last_op' = [op |-> "enqueue", device |-> th.device, code |-> 200,
                      command_id |-> th.command_id,
                      status |-> device_commands'[th.device][index].status]
       /\ UNCHANGED <<now, next_uuid, assets, telemetry, alerts, device_registry,
                      device_configs, geofences, device_geofence_state, edge_insights,
                      maintenance_predictions, pattern_cache, anomaly_models,
                      device_health_scores, adapters, recorded, analysis_runs, last_msg,
                      registrations>>

\* A scan that settles for the first command when the id matches none.
find_command_lenient(queue, command_id) ==
    IF \E i \in 1..Len(queue) : queue[i].command_id = command_id
    THEN CHOOSE i \in 1..Len(queue) : queue[i].command_id = command_id
    ELSE IF queue = <<>> THEN 0 ELSE 1

\* ack_command, lines 617-618: the index of the first command of the queue
\* with this id, 0 if none.
find_command(queue, command_id) ==
    IF \E i \in 1..Len(queue) : queue[i].command_id = command_id
    THEN CHOOSE i \in 1..Len(queue) :
            /\ queue[i].command_id = command_id
            /\ \A j \in 1..(i - 1) : queue[j].command_id # command_id
    ELSE 0

\* ack_command, lines 619-620
acknowledged(command) ==
    [command EXCEPT !.status = "acknowledged", !.ack_timestamp = now]

\* An acknowledgment that marks every command of the queue.
ack_queue_all(queue, command_id) ==
    [i \in 1..Len(queue) |-> acknowledged(queue[i])]

\* ack_command, lines 617-622: the queue after the scan.
ack_queue(queue, command_id) ==
    [i \in 1..Len(queue) |->
        IF i = find_command(queue, command_id) THEN acknowledged(queue[i]) ELSE queue[i]]

ack_found(device_id, command_id) ==
    /\ device_id \in DOMAIN device_commands
    /\ find_command(device_commands[device_id], command_id) # 0

\* POST /api/devices/<device_id>/commands/<command_id>/ack
AckCommand(device_id, command_id) ==
    IF ~ack_found(device_id, command_id)
    THEN /\ last_op' = [op |-> "ack", device |-> device_id, code |-> 404,
                        command_id |-> command_id]
         /\ UNCHANGED <<now, next_uuid, stores, adapters, recorded, analysis_runs,
                        last_msg, registrations, threads>>
    ELSE /\ device_commands' = Put(device_commands, device_id,
                ack_queue(device_commands[device_id], command_id))
         /\ last_op' = [op |-> "ack", device |-> device_id, code |-> 200,
                        command_id |-> command_id,
                        was |-> device_commands[device_id]
                                   [find_command(device_commands[device_id], command_id)].status]
         /\ UNCHANGED <<now, next_uuid, assets, telemetry, alerts, device_registry,
                        device_configs, geofences, device_geofence_state,
                        edge_insights, maintenance_predictions, pattern_cache,
                        anomaly_models, device_health_scores, adapters, recorded,
                        analysis_runs, last_msg, registrations, threads>>

\* ---------------------------------------------------- geofence management
\* A set-geofence that keeps the containment state of a device that has one.
initial_containment_kept(device_id) ==
    Get(device_geofence_state, device_id, "inside")

\* device_geofence, line 670: the containment state a new geofence starts in.
initial_containment(device_id) == "inside"

\* POST /api/devices/<device_id>/geofence
SetGeofence(device_id, data) ==
    IF device_id \notin DOMAIN device_registry
    THEN Rejected("set_geofence", device_id, 404)
    ELSE IF data = EmptyDict \/ ~({"center_lat", "center_lon", "radius_km"} \subseteq DOMAIN data)
    THEN Rejected("set_geofence", device_id, 400)
    ELSE /\ geofences' = Put(geofences, device_id,
                [center_lat |-> data.center_lat,
                 center_lon |-> data.center_lon,
                 radius_km |-> data.radius_km,
                 alert_on_breach |-> Get(data, "alert_on_breach", TRUE),
                 alert_on_return |-> Get(data, "alert_on_return", FALSE),
                 name |-> Get(data, "name", <<"Geofence for", device_id>>),
                 created_at |-> now])
         /\ device_geofence_state' = Put(device_geofence_state, device_id,
                                         initial_containment(device_id))
         /\ last_op' = [op |-> "set_geofence", device |-> device_id, code |-> 200]
         /\ UNCHANGED <<now, next_uuid, assets, telemetry, alerts, device_registry,
                        device_configs, device_commands, edge_insights,
                        maintenance_predictions, pattern_cache, anomaly_models,
                        device_health_scores, adapters, recorded, analysis_runs,
                        last_msg, registrations, threads>>

\* DELETE /api/devices/<device_id>/geofence
DeleteGeofence(device_id) ==
    IF device_id \notin DOMAIN device_registry
    THEN Rejected("delete_geofence", device_id, 404)
    ELSE IF device_id \notin DOMAIN geofences
    THEN Rejected("delete_geofence", device_id, 404)
    ELSE /\ geofences' = Del(geofences, device_id)
         /\ device_geofence_state' = Del(device_geofence_state, device_id)
         /\ last_op' = [op |-> "delete_geofence", device |-> device_id, code |-> 200]
         /\ UNCHANGED <<now, next_uuid, assets, telemetry, alerts, device_registry,
                        device_configs, device_commands, edge_insights,
                        maintenance_predictions, pattern_cache, anomaly_models,
                        device_health_scores, adapters, recorded, analysis_runs,
                        last_msg, registrations, threads>>

\* ------------------------------------------------------------ read routes
\* A read request that is answered from the stores and changes none.
Answered(op, device_id) ==
    /\ last_op' = [op |-> op, device |-> device_id, code |-> 200]
    /\ UNCHANGED <<now, next_uuid, stores, adapters, recorded, analysis_runs,
                   last_msg, registrations, threads>>

\* is_device_online, line 81: a device counts as online for 5 minutes after
\* the timestamp of its latest sample (the clock counts minutes).
OnlineWindow == 5

\* is_device_online(device_id): the latest sample is the last entry of the
\* device's history, list(telemetry[device_id])[-1].
is_device_online(device_id) ==
    LET history == Get(telemetry, device_id, <<>>)
    IN IF history = <<>> THEN FALSE
       ELSE now - Last(history).timestamp < OnlineWindow

\* get_device, lines 452-453, and get_all_devices, lines 422-423:
\* latest_telemetry is the list of the whole history and last_seen the
\* timestamp of its entry [0]; None (NoneTs) without history.
last_seen(device_id) ==
    LET latest_telemetry == Get(telemetry, device_id, <<>>)
    IN IF latest_telemetry # <<>> THEN latest_telemetry[1].timestamp ELSE NoneTs

\* GET /api/devices/<device_id>
GetDevice(device_id) ==
    IF device_id \notin DOMAIN device_registry
    THEN Rejected("get_device", device_id, 404)
    ELSE /\ last_op' = [op |-> "get_device", device |-> device_id, code |-> 200,
                        last_seen |-> last_seen(device_id),
                        online |-> is_device_online(device_id)]
         /\ UNCHANGED <<now, next_uuid, stores, adapters, recorded, analysis_runs,
                        last_msg, registrations, threads>>

\* GET /api/devices: one entry for each device of the registry.
ListDevices ==
    /\ last_op' = [op |-> "list_devices", code |-> 200,
                   last_seen |-> [d \in DOMAIN device_registry |-> last_seen(d)],
                   online |-> [d \in DOMAIN device_registry |-> is_device_online(d)]]
    /\ UNCHANGED <<now, next_uuid, stores, adapters, recorded, analysis_runs,
                   last_msg, registrations, threads>>

\* GET /api/devices/<device_id>/config
GetConfig(device_id) ==
    IF device_id \notin DOMAIN device_registry
    THEN Rejected("get_config", device_id, 404)
    ELSE Answered("get_config", device_id)

\* GET /api/devices/<device_id>/commands
ListCommands(device_id) ==
    IF device_id \notin DOMAIN device_registry
    THEN Rejected("list_commands", device_id, 404)
    ELSE Answered("list_commands", device_id)

\* GET /api/devices/<device_id>/geofence
GetGeofence(device_id) ==
    IF device_id \notin DOMAIN device_registry
    THEN Rejected("get_geofence", device_id, 404)
    ELSE Answered("get_geofence", device_id)

\* GET /api/devices/<device_id>/edge
GetEdgeInsights(device_id) ==
    IF device_id \notin DOMAIN device_registry
    THEN Rejected("get_edge", device_id, 404)
    ELSE Answered("get_edge", device_id)

\* GET /api/devices/<device_id>/maintenance: without a stored prediction the
\* predictor is run on demand over the device's history, and a prediction it
\* returns is stored.  `prediction` in the response is <<>> for null.
GetMaintenance(device_id) ==
    IF device_id \notin DOMAIN device_registry
    THEN Rejected("get_maintenance", device_id, 404)
    ELSE LET device_history == Get(telemetry, device_id, <<>>)
             on_demand == device_id \notin DOMAIN maintenance_predictions
                          /\ device_history # <<>>
             result == IF on_demand
                       THEN analyze_health_trends_result(device_id, device_history)
                       ELSE <<>>
             prediction == IF device_id \in DOMAIN maintenance_predictions
                           THEN <<maintenance_predictions[device_id]>>
                           ELSE result
         IN /\ maintenance_predictions' =
                   IF result # <<>>
                   THEN Put(maintenance_predictions, device_id, result[1])
                   ELSE maintenance_predictions
            /\ device_health_scores' =
                   IF result # <<>>
                   THEN Put(device_health_scores, device_id, health_score_of(device_history))
                   ELSE device_health_scores
            /\ last_op' = [op |-> "get_maintenance", device |-> device_id, code |-> 200,
                           on_demand |-> on_demand, prediction |-> prediction]
            /\ UNCHANGED <<now, next_uuid, assets, telemetry, alerts, device_registry,
                           device_configs, device_commands, geofences,
                           device_geofence_state, edge_insights, pattern_cache,
                           anomaly_models, adapters, recorded, analysis_runs, last_msg,
                           registrations, threads>>

\* ------------------------------------------------------------------ inputs
DeviceIds == {"truck1", "lorawan_A1"}

\* A fence of radius 1 km around latitude 34.89000, with each combination of
\* the alert flags.
GeofenceBodies ==
    {[center_lat |-> 3489000, center_lon |-> Lon0, radius_km |-> 1000000,
      alert_on_breach |-> b, alert_on_return |-> r] : b \in BOOLEAN, r \in BOOLEAN}

\* Two positions inside the fence (at the centre, and 995.2 m north of it)
\* and two outside (1000.8 m and 6.67 km north of the centre).
Positions == {3489000, 3489895, 3489900, 3495000}

Sample(device_id, lat, battery) ==
    [device_id |-> device_id, timestamp |-> 0, lat |-> lat, lon |-> Lon0,
     battery |-> battery, temperature |-> 25, device_type |-> "truck",
     status |-> "MOVING", signal_strength |-> -70]

\* Messages of truck1: a full message at each position, and one message
\* with the legacy id field and no timestamp.
TruckMessages ==
    {Sample("truck1", lat, 80) : lat \in Positions}
    \cup {[id |-> "truck1", lat |-> 3495000, lon |-> Lon0, battery |-> 70,
           temperature |-> 25]}

CommandBodies == {[command |-> "reboot"], [parameters |-> "{}"]}

ConfigBodies == {[telemetry_interval |-> 10]}

\* Messages with every combination of an absent, empty, null or given
\* device_id and id field.
IdValues == {"", None, "truck1"}

Reading == [lat |-> 3489000, lon |-> Lon0, battery |-> 80, temperature |-> 25]

IdMessages ==
    {Reading}
    \cup {Reading @@ ("device_id" :> v) : v \in IdValues}
    \cup {Reading @@ ("id" :> w) : w \in IdValues}
    \cup {Reading @@ ("device_id" :> v) @@ ("id" :> w) : v \in IdValues, w \in IdValues}

\* Registration requests: one with the protocol only, one that also gives the
\* device type and a telemetry interval.
RegisterBodies ==
    {[protocol |-> "http"],
     [protocol |-> "http", device_type |-> "truck", telemetry_interval |-> 5]}

\* --------------------------------------------------------- specifications
\* Spec: the telemetry pipeline and the geofence state machine of one device,
\* fed through the CoAP bridge.
Next ==
    \/ registrations < MaxRegs /\ RegisterDevice("truck1", [protocol |-> "coap"])
    \/ \E raw \in TruckMessages :
          /\ Get(recorded, resolve_device_id(raw), 0) < MaxSamples
          /\ SubmitTelemetry("coap", raw)
    \/ \E data \in GeofenceBodies : SetGeofence("truck1", data)
    \/ DeleteGeofence("truck1")

Spec == Init /\ [][Next]_vars

\* SpecCmd: the device registry and the command lifecycle of two devices, at
\* one instant.
ProtocolsOf(device_id) ==
    IF device_id = "lorawan_A1" THEN {"lorawan", "opcua"} ELSE {"mqtt", "http"}

NextCmd ==
    \/ \E connected \in BOOLEAN : InitProtocolRouter(connected)
    \/ InitIndustrial
    \/ \E d \in DeviceIds : \E p \in ProtocolsOf(d) :
          registrations < MaxRegs /\ RegisterDevice(d, [protocol |-> p])
    \/ \E d \in DeviceIds, data \in CommandBodies :
          next_uuid <= MaxCmds /\ EnqueueCommand(d, data)
    \/ \E d \in DeviceIds, new_config \in ConfigBodies :
          next_uuid <= MaxCmds /\ UpdateConfig(d, new_config)
    \/ \E d \in DeviceIds, command_id \in 1..next_uuid : AckCommand(d, command_id)

SpecCmd == Init /\ [][NextCmd]_vars

\* SpecAck: commands of two MQTT devices, each registered once, and their
\* acknowledgment, while time passes.
NextAck ==
    \/ now < MaxClock /\ Tick
    \/ InitProtocolRouter(TRUE)
    \/ \E d \in DeviceIds :
          d \notin DOMAIN device_registry /\ RegisterDevice(d, [protocol |-> "mqtt"])
    \/ \E d \in DeviceIds :
          next_uuid <= MaxCmds /\ EnqueueCommand(d, [command |-> "reboot"])
    \/ \E d \in DeviceIds, command_id \in 1..next_uuid : AckCommand(d, command_id)

SpecAck == Init /\ [][NextAck]_vars

\* SpecRegistry: the management routes addressed at truck1, which is
\* registered by request or by its first telemetry, and at lorawan_A1, which
\* never is.
NextRegistry ==
    \/ \E data \in RegisterBodies :
          registrations < MaxUpserts /\ RegisterDevice("truck1", data)
    \/ /\ Get(recorded, "truck1", 0) < MaxSamples
       /\ SubmitTelemetry("coap", Sample("truck1", 3489000, 80))
    \/ \E d \in DeviceIds, new_config \in ConfigBodies :
          next_uuid <= MaxCmds /\ UpdateConfig(d, new_config)
    \/ \E d \in DeviceIds, data \in CommandBodies :
          next_uuid <= MaxCmds /\ EnqueueCommand(d, data)
    \/ \E d \in DeviceIds, data \in GeofenceBodies : SetGeofence(d, data)
    \/ \E d \in DeviceIds : DeleteGeofence(d)
    \/ \E d \in DeviceIds : GetDevice(d)
    \/ \E d \in DeviceIds : GetConfig(d)
    \/ \E d \in DeviceIds : ListCommands(d)
    \/ \E d \in DeviceIds : GetGeofence(d)
    \/ \E d \in DeviceIds : GetEdgeInsights(d)
    \/ \E d \in DeviceIds : GetMaintenance(d)

SpecRegistry == Init /\ [][NextRegistry]_vars

\* SpecIds: messages that name their device in every way.
NextIds ==
    \E raw \in IdMessages :
        /\ Get(recorded, resolve_device_id(raw), 0) < MaxSamples
        /\ SubmitTelemetry("coap", raw)

SpecIds == Init /\ [][NextIds]_vars

\* SpecHealth: one device whose every message is either harsh (battery 3 %
\* lower, 0.6 degree further north, temperature swinging between 0 and 50) or
\* mild (battery 3 % higher, same place, 25 degrees), and the maintenance
\* query.
HealthReading(device_id, harsh) ==
    IF Get(telemetry, device_id, <<>>) = <<>>
    THEN Sample(device_id, 3489000, 50)
    ELSE LET previous == Last(telemetry[device_id])
         IN [Sample(device_id,
                    IF harsh THEN previous.lat + 60000 ELSE previous.lat,
                    IF harsh THEN previous.battery - 3 ELSE previous.battery + 3)
               EXCEPT !.timestamp = previous.timestamp + 1,
                      !.temperature = IF ~harsh THEN 25
                                      ELSE IF previous.temperature = 0 THEN 50 ELSE 0]

NextHealth ==
    \/ \E harsh \in BOOLEAN :
          /\ Get(recorded, "truck1", 0) < MaxHealthSamples
          /\ SubmitTelemetry("coap", HealthReading("truck1", harsh))
    \/ GetMaintenance("truck1")

SpecHealth == Init /\ [][NextHealth]_vars

\* SpecScore: one device whose every message follows one of four courses,
\* and the maintenance query.  "dead": battery 0, 2 degrees further north,
\* temperature swinging between -40 and 80; "falling": battery 25 % lower,
\* same hop and swing; "rising": battery 25 % higher, same place and
\* temperature; "creep": battery 3 % lower, 0.02 degree further north, same
\* temperature.
Courses == {"dead", "falling", "rising", "creep"}

ScoreReading(device_id, course) ==
    IF Get(telemetry, device_id, <<>>) = <<>>
    THEN [Sample(device_id, 3489000,
                 CASE course = "dead" -> 0
                   [] course = "rising" -> 0
                   [] OTHER -> 100)
            EXCEPT !.temperature = IF course \in {"dead", "falling"} THEN 80 ELSE 25]
    ELSE LET previous == Last(telemetry[device_id])
         IN [Sample(device_id,
                    CASE course \in {"dead", "falling"} -> previous.lat + 200000
                      [] course = "creep" -> previous.lat + 2000
                      [] OTHER -> previous.lat,
                    CASE course = "dead" -> 0
                      [] course = "falling" -> Max(0, previous.battery - 25)
                      [] course = "rising" -> Min(100, previous.battery + 25)
                      [] OTHER -> Max(0, previous.battery - 3))
               EXCEPT !.timestamp = previous.timestamp + 1,
                      !.temperature = IF course \in {"dead", "falling"}
                                      THEN (IF previous.temperature = 80 THEN -40 ELSE 80)
                                      ELSE previous.temperature]

NextScore ==
    \/ \E course \in Courses :
          /\ Get(recorded, "truck1", 0) < MaxScoreSamples
          /\ SubmitTelemetry("coap", ScoreReading("truck1", course))
    \/ GetMaintenance("truck1")

SpecScore == Init /\ [][NextScore]_vars

\* SpecAnomaly: one device whose every message is either ordinary (battery
\* 80 or 77 %, 25 degrees, signal -70) or critical (battery 8 or 5 %, 50
\* degrees, signal -130), each a significant change from the previous one.
AnomalyReading(device_id, critical) ==
    LET has_previous == Get(telemetry, device_id, <<>>) # <<>>
        previous == IF has_previous THEN Last(telemetry[device_id])
                    ELSE Sample(device_id, 3489000, 0)
        battery == IF critical THEN (IF previous.battery = 8 THEN 5 ELSE 8)
                   ELSE (IF previous.battery = 80 THEN 77 ELSE 80)
    IN [Sample(device_id, 3489000, battery)
          EXCEPT !.timestamp = IF has_previous THEN previous.timestamp + 1 ELSE 0,
                 !.temperature = IF critical THEN 50 ELSE 25,
                 !.signal_strength = IF critical THEN -130 ELSE -70]

NextAnomaly ==
    \E critical \in BOOLEAN :
        /\ Get(recorded, "truck1", 0) < MaxAnomalySamples
        /\ SubmitTelemetry("coap", AnomalyReading("truck1", critical))

SpecAnomaly == Init /\ [][NextAnomaly]_vars

\* SpecInsight: the messages of truck1 through the CoAP bridge, while the
\* clock advances.
NextInsight ==
    \/ now < MaxClock /\ Tick
    \/ \E raw \in TruckMessages :
          /\ Get(recorded, resolve_device_id(raw), 0) < MaxSamples
          /\ SubmitTelemetry("coap", raw)

SpecInsight == Init /\ [][NextInsight]_vars

\* SpecAlerts: the adapters submit one alert per instant, over HTTP with
\* every field at even instants and over MQTT with the device id only at
\* odd ones; once the alert sequence is within one entry of its capacity,
\* truck1 reports from the centre of a geofence that is then set, and moves
\* away on the harsh course of SpecHealth for ten samples.
AlertMessage(adapter) ==
    IF adapter = "http"
    THEN [device_id |-> "truck1", device_type |-> "truck", type |-> "ENGINE_FAULT",
          detail |-> "engine", severity |-> "low"]
    ELSE [device_id |-> "truck1"]

NextAlerts ==
    \/ InitProtocolRouter(TRUE)
    \/ /\ now < MaxAlertClock
       /\ alerts # <<>>
       /\ Last(alerts).timestamp = now
       /\ Tick
    \/ \E adapter \in {"http", "mqtt"} :
          /\ protocol_router = "ready"
          /\ adapter = (IF now % 2 = 0 THEN "http" ELSE "mqtt")
          /\ IF alerts = <<>> THEN TRUE ELSE Last(alerts).timestamp < now
          /\ SubmitAlert(adapter, AlertMessage(adapter))
    \/ /\ Len(alerts) >= AlertsCap - 1
       /\ Get(recorded, "truck1", 0) < AnalysisEvery
       /\ "truck1" \in DOMAIN device_registry => "truck1" \in DOMAIN geofences
       /\ SubmitTelemetry("coap", HealthReading("truck1", TRUE))
    \/ \E data \in GeofenceBodies :
          /\ "truck1" \in DOMAIN device_registry
          /\ "truck1" \notin DOMAIN geofences
          /\ SetGeofence("truck1", data)

SpecAlerts == Init /\ [][NextAlerts]_vars

\* SpecIndustrial: once the industrial protocols are initialised, samples of
\* truck1 tagged with each industrial protocol arrive at the telemetry
\* callback.
NextIndustrial ==
    \/ \E connected \in BOOLEAN : InitProtocolRouter(connected)
    \/ InitIndustrial
    \/ \E protocol \in IndustrialProtocol, raw \in TruckMessages :
          /\ Get(recorded, resolve_device_id(raw), 0) < MaxSamples
          /\ IndustrialTelemetry(protocol, raw)

SpecIndustrial == Init /\ [][NextIndustrial]_vars

\* SpecConc: truck1 is registered and given a geofence (which sets its
\* containment to "inside"); then the HTTP server's worker and the MQTT
\* client's loop each handle one message of truck1, at any of the four
\* positions, their steps interleaved in every way.
NextConc ==
    \/ InitProtocolRouter(TRUE)
    \/ registrations < MaxRegs /\ RegisterDevice("truck1", [protocol |-> "mqtt"])
    \/ \E data \in GeofenceBodies :
          /\ "truck1" \in DOMAIN device_registry
          /\ "truck1" \notin DOMAIN geofences
          /\ SetGeofence("truck1", data)
    \/ \E t \in ThreadIds, lat \in Positions :
          /\ "truck1" \in DOMAIN geofences
          /\ BeginTelemetry(t, t, Sample("truck1", lat, 80))
    \/ \E t \in ThreadIds : FinishTelemetry(t)

SpecConc == Init /\ [][NextConc]_vars

\* SpecSteps: the HTTP server's worker and the MQTT client's loop each handle
\* one message of truck1, which nobody has registered or which a
\* registration request registers at any moment; the four steps of the two
\* calls are interleaved in every way, and time may pass in between.
NextSteps ==
    \/ InitProtocolRouter(TRUE)
    \/ now < MaxClock /\ Tick
    \/ /\ registrations < MaxRegs
       /\ RegisterDevice("truck1", [protocol |-> "http", device_type |-> "truck"])
    \/ \E t \in ThreadIds, lat \in {3489000, 3495000} :
          EnterPipeline(t, t, Sample("truck1", lat, 80))
    \/ \E t \in ThreadIds : AutoRegister(t)
    \/ \E t \in ThreadIds : RecordSnapshot(t)
    \/ \E t \in ThreadIds : AppendHistory(t)

SpecSteps == Init /\ [][NextSteps]_vars

\* Set-geofence bodies that fail the validation: an absent or empty body,
\* and a body lacking one of the three required fields.
FullGeofenceBody ==
    [center_lat |-> 3489000, center_lon |-> Lon0, radius_km |-> 1000000]

InvalidGeofenceBodies ==
    {EmptyDict}
    \cup {[k \in DOMAIN FullGeofenceBody \ {f} |-> FullGeofenceBody[k]] :
             f \in DOMAIN FullGeofenceBody}

\* Send-command bodies that fail the validation: an absent or empty body and
\* a body without the command field.
InvalidCommandBodies == {EmptyDict, [parameters |-> "{}"]}

\* SpecValidate: truck1 is registered, reports its position, gets geofences
\* and commands; requests with invalid bodies arrive at any time.
NextValidate ==
    \/ registrations < MaxRegs /\ RegisterDevice("truck1", [protocol |-> "coap"])
    \/ \E lat \in Positions :
          /\ Get(recorded, "truck1", 0) < MaxSamples
          /\ SubmitTelemetry("coap", Sample("truck1", lat, 80))
    \/ \E data \in {FullGeofenceBody} \cup InvalidGeofenceBodies :
          SetGeofence("truck1", data)
    \/ \E data \in {[command |-> "reboot"]} \cup InvalidCommandBodies :
          next_uuid <= MaxCmds /\ EnqueueCommand("truck1", data)

SpecValidate == Init /\ [][NextValidate]_vars

\* Messages with a field that float() rejects: the latitude or the battery
\* reading, of the registered truck1 or of a device nobody registered.
MalformedMessages ==
    {[Sample(d, 3495000, 80) EXCEPT ![f] = NonNumeric] :
        d \in DeviceIds, f \in {"lat", "battery"}}

\* SpecMalformed: truck1 is registered, gets a geofence and reports its
\* position; malformed messages arrive at any time.
NextMalformed ==
    \/ registrations < MaxRegs /\ RegisterDevice("truck1", [protocol |-> "coap"])
    \/ \E data \in GeofenceBodies :
          /\ "truck1" \in DOMAIN device_registry
          /\ "truck1" \notin DOMAIN geofences
          /\ SetGeofence("truck1", data)
    \/ \E lat \in Positions :
          /\ Get(recorded, "truck1", 0) < MaxSamples
          /\ SubmitTelemetry("coap", Sample("truck1", lat, 80))
    \/ \E raw \in MalformedMessages : SubmitTelemetry("coap", raw)

SpecMalformed == Init /\ [][NextMalformed]_vars

\* SpecRace: commands for two MQTT devices, each send-command request served
\* in two steps by a worker thread, while the devices acknowledge the
\* commands they have received and time passes.
NextRace ==
    \/ now < MaxClock /\ Tick
    \/ InitProtocolRouter(TRUE)
    \/ \E d \in DeviceIds :
          d \notin DOMAIN device_registry /\ RegisterDevice(d, [protocol |-> "mqtt"])
    \/ \E t \in ThreadIds, d \in DeviceIds :
          next_uuid <= MaxCmds /\ AppendCommand(t, d, [command |-> "reboot"])
    \/ \E t \in ThreadIds : MarkSent(t)
    \/ \E d \in DeviceIds, command_id \in 1..next_uuid : AckCommand(d, command_id)

SpecRace == Init /\ [][NextRace]_vars

\* SpecFence: truck1 is registered; geofences are set and deleted for it at
\* any moment while the HTTP server's worker and the MQTT client's loop each
\* handle one message of truck1 in two steps.
NextFence ==
    \/ InitProtocolRouter(TRUE)
    \/ registrations < MaxRegs /\ RegisterDevice("truck1", [protocol |-> "mqtt"])
    \/ SetGeofence("truck1", FullGeofenceBody)
    \/ DeleteGeofence("truck1")
    \/ \E t \in ThreadIds, lat \in {3489000, 3495000} :
          BeginTelemetry(t, t, Sample("truck1", lat, 80))
    \/ \E t \in ThreadIds : FinishTelemetry(t)

SpecFence == Init /\ [][NextFence]_vars

\* SpecSkip: truck1, registered or not, with or without a geofence, sends
\* messages at positions a few metres or some kilometres apart.
NextSkip ==
    \/ registrations < MaxRegs /\ RegisterDevice("truck1", [protocol |-> "coap"])
    \/ /\ "truck1" \notin DOMAIN geofences
       /\ SetGeofence("truck1", FullGeofenceBody)
    \/ \E raw \in TruckMessages :
          /\ Get(recorded, resolve_device_id(raw), 0) < MaxSamples
          /\ SubmitTelemetry("coap", raw)

SpecSkip == Init /\ [][NextSkip]_vars

\* SpecHistory: one device reporting for longer than its history holds.  The
\* device's n-th recorded message carries timestamp n and a battery reading 3
\* above the previous one (a significant change); at any time it may also
\* repeat its last message.
NextReading(device_id) ==
    IF Get(telemetry, device_id, <<>>) = <<>>
    THEN Sample(device_id, 3489000, 50)
    ELSE [Sample(device_id, 3489000, (Last(telemetry[device_id]).battery + 3) % 100)
            EXCEPT !.timestamp = Last(telemetry[device_id]).timestamp + 1]

NextHistory ==
    \/ /\ Get(recorded, "truck1", 0) < MaxRecorded
       /\ SubmitTelemetry("coap", NextReading("truck1"))
    \/ /\ "truck1" \in DOMAIN last_msg
       /\ last_op.outcome # "skipped"
       /\ SubmitTelemetry("coap", last_msg["truck1"].raw)

SpecHistory == Init /\ [][NextHistory]_vars

\* SpecSeen: one device reporting for longer than its history holds, each
\* message with the next timestamp, while the device queries are served.
NextSeen ==
    \/ /\ Get(recorded, "truck1", 0) < MaxRecorded
       /\ SubmitTelemetry("coap", NextReading("truck1"))
    \/ GetDevice("truck1")
    \/ ListDevices

SpecSeen == Init /\ [][NextSeen]_vars

\* ------------------------------------------------------------------ claims
\* The step just taken is a telemetry submission for device d that entered
\* the pipeline.
TelemetryStepDone(d) ==
    /\ last_op.op = "telemetry"
    /\ last_op.device = d
    /\ last_op.outcome \in {"skipped", "recorded", "raised"}

\* C1: a device's retained history never holds more than 500 entries; after
\* N recorded samples it holds the min(N, 500) most recent ones in arrival
\* order (in SpecHistory the n-th recorded sample carries timestamp n - 1).
C1_HistoryBounded ==
    \A d \in DOMAIN telemetry :
        /\ Len(telemetry[d]) <= HistoryCap
        /\ Len(telemetry[d]) = Min(Get(recorded, d, 0), HistoryCap)
        /\ \A i \in 1..Len(telemetry[d]) :
              telemetry[d][i].timestamp = recorded[d] - Len(telemetry[d]) + i - 1
        /\ assets[d] = Last(telemetry[d])

\* C1 witness: more than 500 samples have been recorded and the oldest evicted.
C1_Witness ==
    /\ "truck1" \in DOMAIN telemetry
    /\ recorded["truck1"] > HistoryCap + 1
    /\ Len(telemetry["truck1"]) = HistoryCap
    /\ telemetry["truck1"][1].timestamp = recorded["truck1"] - HistoryCap

\* C5 (as claimed): analytics has run exactly once per 10 recorded samples,
\* also after the history has reached its capacity.
C5_EveryTenth ==
    \A d \in DOMAIN recorded : Get(analysis_runs, d, 0) = recorded[d] \div AnalysisEvery

\* The step being taken is a telemetry submission for device d that enters
\* the pipeline (every action sets last_op).
TelemetryStep(d) ==
    /\ last_op'.op = "telemetry"
    /\ last_op'.device = d
    /\ last_op'.outcome \in {"skipped", "recorded", "raised"}

\* ... and that the pre-filter lets through.
ProcessedStep(d) ==
    /\ TelemetryStep(d)
    /\ last_op'.outcome \in {"recorded", "raised"}

\* The containment computed for the position of the message of the step.
StepComputed(d) == computed_state(d, last_msg'[d].raw.lat, last_msg'[d].raw.lon)

StoredState(d) == Get(device_geofence_state, d, "inside")

\* The alerts of one type for device d.
AlertsOf(als, d, type) ==
    Cardinality({i \in 1..Len(als) : als[i].device_id = d /\ als[i].type = type})

\* The device has moved: the position of the message of the step is not the
\* position of the device's last recorded sample.
StepMoved(d) ==
    \/ Get(telemetry, d, <<>>) = <<>>
    \/ Last(telemetry[d]).lat # last_msg'[d].raw.lat

\* C2 (as claimed): with alert_on_breach set and stored containment "inside",
\* every sample by which the device moves to a position outside the fence
\* appends exactly one GEOFENCE_BREACH alert; with stored containment
\* "outside" a sample outside appends none.
C2_BreachOnCrossingSample ==
    [][\A d \in DOMAIN geofences :
          (TelemetryStep(d) /\ geofences[d].alert_on_breach
           /\ StepComputed(d) = "outside" /\ StepMoved(d))
          => IF StoredState(d) = "inside"
             THEN AlertsOf(alerts', d, "GEOFENCE_BREACH")
                      = AlertsOf(alerts, d, "GEOFENCE_BREACH") + 1
             ELSE AlertsOf(alerts', d, "GEOFENCE_BREACH")
                      = AlertsOf(alerts, d, "GEOFENCE_BREACH")]_vars

\* C2 (amended): with alert_on_breach set and stored containment "inside",
\* the first outside sample that the compression pre-filter lets through
\* appends exactly one GEOFENCE_BREACH alert and stores "outside"; a sample
\* the pre-filter drops appends nothing and leaves the containment as it was;
\* with stored containment "outside" an outside sample appends no breach.
C2_BreachOnProcessedCrossing ==
    [][\A d \in DOMAIN geofences :
          (TelemetryStep(d) /\ geofences[d].alert_on_breach
           /\ StepComputed(d) = "outside")
          => IF last_op'.outcome = "skipped"
             THEN alerts' = alerts /\ device_geofence_state' = device_geofence_state
             ELSE /\ device_geofence_state'[d] = "outside"
                  /\ AlertsOf(alerts', d, "GEOFENCE_BREACH")
                       = AlertsOf(alerts, d, "GEOFENCE_BREACH")
                         + (IF StoredState(d) = "inside" THEN 1 ELSE 0)]_vars

\* C2 witness: two samples in a row were recorded outside the fence, and
\* there is exactly one breach alert.
C2_Witness ==
    /\ TelemetryStepDone("truck1")
    /\ last_op.outcome = "recorded"
    /\ "truck1" \in DOMAIN geofences
    /\ geofences["truck1"].alert_on_breach
    /\ Len(telemetry["truck1"]) >= 2
    /\ Last(telemetry["truck1"]).geofence_state = "outside"
    /\ telemetry["truck1"][Len(telemetry["truck1"]) - 1].geofence_state = "outside"
    /\ AlertsOf(alerts, "truck1", "GEOFENCE_BREACH") = 1

\* C3: a processed sample whose computed containment differs from the stored
\* one stores the computed containment whatever the alert flags are; an
\* alert is appended only for a breach with alert_on_breach or a return with
\* alert_on_return; a same-state sample appends nothing.
C3_StateFlipsRegardlessOfFlags ==
    [][\A d \in DOMAIN geofences :
          ProcessedStep(d)
          => /\ device_geofence_state'[d] = StepComputed(d)
             /\ IF StoredState(d) = StepComputed(d)
                THEN alerts' = alerts
                ELSE IF StepComputed(d) = "outside"
                THEN IF geofences[d].alert_on_breach
                     THEN /\ Len(alerts') = Len(alerts) + 1
                          /\ Last(alerts').type = "GEOFENCE_BREACH"
                     ELSE alerts' = alerts
                ELSE IF geofences[d].alert_on_return
                     THEN /\ Len(alerts') = Len(alerts) + 1
                          /\ Last(alerts').type = "GEOFENCE_RETURN"
                     ELSE alerts' = alerts]_vars

\* C3 witness: with alert_on_breach false a sample outside the fence was
\* recorded; the containment is "outside" and no alert exists.
C3_Witness ==
    /\ TelemetryStepDone("truck1")
    /\ last_op.outcome = "recorded"
    /\ "truck1" \in DOMAIN geofences
    /\ ~geofences["truck1"].alert_on_breach
    /\ device_geofence_state["truck1"] = "outside"
    /\ Last(telemetry["truck1"]).geofence_state = "outside"
    /\ alerts = <<>>

\* C4 (as claimed): the second of two identical messages submitted
\* back-to-back for a device adds a history entry of its own.
C4_TwoEntries ==
    [][\A d \in DOMAIN last_msg :
          (TelemetryStep(d) /\ last_op'.repeat)
          => Len(telemetry'[d]) = Len(telemetry[d]) + 1]_vars

\* C4 (amended): the second of two identical messages submitted back-to-back
\* for a device is dropped by the compression pre-filter: it adds no history
\* entry and no alert, so the pair adds at most one history entry and at
\* most one geofence event.
C4_SecondDropped ==
    [][\A d \in DOMAIN last_msg :
          (TelemetryStep(d) /\ last_op'.repeat)
          => /\ last_op'.outcome = "skipped"
             /\ telemetry' = telemetry
             /\ assets' = assets
             /\ alerts' = alerts
             /\ device_geofence_state' = device_geofence_state]_vars

\* C4 witness: a message was submitted twice in a row and the history holds
\* one entry.
C4_Witness ==
    /\ TelemetryStepDone("truck1")
    /\ last_op.repeat
    /\ last_op.outcome = "skipped"
    /\ Len(telemetry["truck1"]) = 1
    /\ recorded["truck1"] = 1

\* The step being taken is an acknowledgment addressed at device d.
AckStep(d) == last_op'.op = "ack" /\ last_op'.device = d

\* Device d's queue holds a command with this id.
InQueue(d, command_id) ==
    /\ d \in DOMAIN device_commands
    /\ \E i \in 1..Len(device_commands[d]) :
          device_commands[d][i].command_id = command_id

\* C6: acknowledging a command id that enqueueCommand returned for the device
\* reports success and leaves that command "acknowledged" with the ack
\* timestamp set, whatever its status was; every other command of every
\* queue is unchanged.
C6_AckMatched ==
    [][\A d \in DeviceIds :
          (AckStep(d) /\ InQueue(d, last_op'.command_id))
          => /\ last_op'.code = 200
             /\ DOMAIN device_commands' = DOMAIN device_commands
             /\ \A e \in DOMAIN device_commands :
                   /\ Len(device_commands'[e]) = Len(device_commands[e])
                   /\ \A i \in 1..Len(device_commands[e]) :
                         IF e = d /\ device_commands[e][i].command_id = last_op'.command_id
                         THEN /\ device_commands'[e][i] =
                                   [device_commands[e][i] EXCEPT
                                       !.status = "acknowledged", !.ack_timestamp = now]
                              /\ device_commands'[e][i].ack_timestamp # NoneTs
                         ELSE device_commands'[e][i] = device_commands[e][i]]_vars

\* C6 witness: a command that was "sent" has been acknowledged while another
\* command of the same queue is still pending.
C6_Witness ==
    /\ last_op.op = "ack"
    /\ last_op.code = 200
    /\ last_op.was = "sent"
    /\ Len(device_commands[last_op.device]) = 2
    /\ \E i, j \in 1..2 :
          /\ device_commands[last_op.device][i].command_id = last_op.command_id
          /\ device_commands[last_op.device][i].status = "acknowledged"
          /\ device_commands[last_op.device][i].ack_timestamp = now
          /\ device_commands[last_op.device][j].status = "pending"

\* C7: acknowledging a command id that matches no command of the device's
\* queue, or for a device without a queue, answers "not found" (404) and
\* leaves every queue unchanged.
C7_AckUnknown ==
    [][\A d \in DeviceIds :
          (AckStep(d) /\ ~InQueue(d, last_op'.command_id))
          => /\ last_op'.code = 404
             /\ device_commands' = device_commands]_vars

\* C7 witness: an acknowledgment was answered 404 by a device whose queue
\* holds commands.
C7_Witness ==
    /\ last_op.op = "ack"
    /\ last_op.code = 404
    /\ last_op.device \in DOMAIN device_commands
    /\ device_commands[last_op.device] # <<>>
    /\ \A i \in 1..Len(device_commands[last_op.device]) :
          device_commands[last_op.device][i].command_id # last_op.command_id

\* C8 (as claimed): acknowledging a command that is already acknowledged
\* reports success and changes nothing in any queue.
C8_ReAckIsNoOp ==
    [][\A d \in DeviceIds :
          (/\ AckStep(d)
           /\ InQueue(d, last_op'.command_id)
           /\ \A i \in 1..Len(device_commands[d]) :
                 device_commands[d][i].command_id = last_op'.command_id
                 => device_commands[d][i].status = "acknowledged")
          => /\ last_op'.code = 200
             /\ device_commands' = device_commands]_vars

\* The adapter of device d's registered protocol is up and accepts a command.
AdapterAccepts(d) ==
    \/ /\ device_registry[d].protocol = "mqtt"
       /\ protocol_router = "ready"
       /\ mqtt_connected
    \/ /\ device_registry[d].protocol = "lorawan"
       /\ industrial_manager = "ready"
       /\ DevEui(d) \in lorawan_devices

\* C9 (as claimed): an enqueued command is marked "sent" only if the adapter
\* of the device's registered protocol is up and accepted it.
C9_SentOnlyIfAccepted ==
    (last_op.op = "enqueue" /\ last_op.code = 200 /\ last_op.status = "sent")
    => AdapterAccepts(last_op.device)

\* Handing a command for device d to its adapter fails with an error: the
\* MQTT publish raises, or the industrial manager reports failure.
HandingFails(d) ==
    \/ device_registry[d].protocol = "mqtt" /\ mqtt_publish_raises
    \/ /\ industrial_manager = "ready"
       /\ device_registry[d].protocol \in IndustrialProtocol
       /\ ~send_command(d, device_registry[d].protocol)

\* C10 (as claimed): a command whose handing to the adapter failed has
\* status "failed".
C10_FailedOnError ==
    (last_op.op = "enqueue" /\ last_op.code = 200 /\ HandingFails(last_op.device))
    => Last(device_commands[last_op.device]).status = "failed"

\* C10 (amended): a command whose handing to the adapter failed stays at the
\* tail of the device's queue with status "pending"; no command of any queue
\* ever has status "failed".
C10_StaysPending ==
    /\ (last_op.op = "enqueue" /\ last_op.code = 200 /\ HandingFails(last_op.device))
       => /\ Last(device_commands[last_op.device]).command_id = last_op.command_id
          /\ Last(device_commands[last_op.device]).status = "pending"
    /\ \A d \in DOMAIN device_commands :
          \A i \in 1..Len(device_commands[d]) : device_commands[d][i].status # "failed"

\* C10 witness: the industrial manager refused a command, which is pending at
\* the tail of the queue.
C10_Witness ==
    /\ last_op.op = "enqueue"
    /\ last_op.code = 200
    /\ HandingFails(last_op.device)
    /\ industrial_manager = "ready"
    /\ Last(device_commands[last_op.device]).status = "pending"

\* The identifiers of all commands of all queues.
AllCommandIds ==
    UNION {{device_commands[d][i].command_id : i \in 1..Len(device_commands[d])} :
              d \in DOMAIN device_commands}

\* The step being taken is a successful enqueueCommand or updateConfig for d.
EnqueueStep(d) ==
    /\ last_op'.op \in {"enqueue", "config"}
    /\ last_op'.device = d
    /\ last_op'.code = 200

\* C11: a successful enqueueCommand or updateConfig appends exactly one
\* command at the tail of the device's queue, built with status "pending" and
\* an id that no command of any queue has (the same request's dispatch may
\* then mark it "sent"; a config_update stays "pending"), also when an equal
\* command is already queued; no step removes or reorders the commands of a
\* queue.
C11_AppendOnly ==
    [][ /\ \A d \in DOMAIN device_commands :
             /\ d \in DOMAIN device_commands'
             /\ Len(device_commands'[d]) >= Len(device_commands[d])
             /\ \A i \in 1..Len(device_commands[d]) :
                   /\ device_commands'[d][i].command_id = device_commands[d][i].command_id
                   /\ device_commands'[d][i].type = device_commands[d][i].type
                   /\ device_commands'[d][i].timestamp = device_commands[d][i].timestamp
        /\ \A d \in DeviceIds :
             EnqueueStep(d)
             => /\ Len(device_commands'[d]) = Len(Get(device_commands, d, <<>>)) + 1
                /\ SubSeq(device_commands'[d], 1, Len(device_commands'[d]) - 1)
                      = Get(device_commands, d, <<>>)
                /\ Last(device_commands'[d]).command_id = last_op'.command_id
                /\ Last(device_commands'[d]).command_id \notin AllCommandIds
                /\ Last(device_commands'[d]).ack_timestamp = NoneTs
                /\ Last(device_commands'[d]).status \in {"pending", "sent"}
                /\ last_op'.op = "config" => Last(device_commands'[d]).status = "pending"
                /\ \A e \in DOMAIN device_commands :
                      e # d => device_commands'[e] = device_commands[e]]_vars

\* C11 witness: the same command was enqueued twice for a device, and its
\* queue holds both.
C11_Witness ==
    /\ last_op.op = "enqueue"
    /\ last_op.code = 200
    /\ Len(device_commands[last_op.device]) = 2
    /\ device_commands[last_op.device][1].type = device_commands[last_op.device][2].type
    /\ device_commands[last_op.device][1].parameters
          = device_commands[last_op.device][2].parameters
    /\ device_commands[last_op.device][1].command_id
          # device_commands[last_op.device][2].command_id

\* C12: a sample for a device absent from the registry is recorded, and the
\* device is registered with device_type and protocol of the message as the
\* adapter tagged it, firmware "unknown", no capabilities and status active;
\* every device with a history or a snapshot is in the registry.
C12_AutoRegisters ==
    [][ /\ (DOMAIN telemetry' \cup DOMAIN assets') \subseteq DOMAIN device_registry'
        /\ \A d \in DeviceIds :
             (TelemetryStep(d) /\ d \notin DOMAIN device_registry)
             => /\ last_op'.outcome = "recorded"
                /\ last_op'.code = 200
                /\ Len(telemetry'[d]) = 1
                /\ device_registry'[d] =
                      [device_type |-> Get(last_msg'[d].raw, "device_type", "unknown"),
                       protocol |-> last_msg'[d].adapter,
                       firmware_version |-> "unknown",
                       capabilities |-> {},
                       registered_at |-> now,
                       status |-> "active"]]_vars

\* C12 witness: the first sample of a device that was never registered has
\* been recorded, and the device is in the registry with firmware "unknown".
C12_Witness ==
    /\ TelemetryStepDone("truck1")
    /\ registrations = 0
    /\ Len(telemetry["truck1"]) = 1
    /\ device_registry["truck1"].firmware_version = "unknown"
    /\ device_registry["truck1"].protocol = "coap"

\* The management operations that are addressed at a registered device.
ManagementOps ==
    {"get_device", "get_config", "config", "list_commands", "enqueue",
     "get_geofence", "set_geofence", "delete_geofence", "get_edge", "get_maintenance"}

\* C13: a management operation addressed at a device id absent from the
\* registry is answered "not found" (404) and leaves the registry, configs,
\* command queues, geofences, containment states, histories, snapshots,
\* predictions and alerts unchanged.
C13_UnknownDeviceNotFound ==
    [][\A d \in DeviceIds :
          (/\ last_op'.op \in ManagementOps
           /\ last_op'.device = d
           /\ d \notin DOMAIN device_registry)
          => /\ last_op'.code = 404
             /\ device_registry' = device_registry
             /\ device_configs' = device_configs
             /\ device_commands' = device_commands
             /\ geofences' = geofences
             /\ device_geofence_state' = device_geofence_state
             /\ telemetry' = telemetry
             /\ assets' = assets
             /\ maintenance_predictions' = maintenance_predictions
             /\ device_health_scores' = device_health_scores
             /\ edge_insights' = edge_insights
             /\ alerts' = alerts]_vars

\* C13 witness: a geofence was posted for the unregistered lorawan_A1 and
\* refused, while truck1 is registered and has a command queue.
C13_Witness ==
    /\ last_op.op = "set_geofence"
    /\ last_op.device = "lorawan_A1"
    /\ last_op.code = 404
    /\ "lorawan_A1" \notin DOMAIN device_registry
    /\ "truck1" \in DOMAIN device_commands
    /\ geofences = EmptyDict

\* C14 (as claimed): every device of the registry has a DeviceConfig, so no
\* updateConfig on a registered device fails for want of one.
C14_EveryDeviceHasConfig ==
    /\ DOMAIN device_registry \subseteq DOMAIN device_configs
    /\ last_op.op = "config" => last_op.code # 500

\* C14, the failing case: a device registered by its first telemetry has no
\* config, and its updateConfig was answered with a server error.
C14_Witness ==
    /\ last_op.op = "config"
    /\ last_op.device = "truck1"
    /\ last_op.code = 500
    /\ "truck1" \in DOMAIN device_registry
    /\ "truck1" \notin DOMAIN device_configs
    /\ registrations = 0

\* C15: registerDevice replaces the DeviceRecord and the DeviceConfig of the
\* device by values derived from the request alone (defaults for what the
\* request omits), whatever the device had before.
C15_RegisterOverwrites ==
    [][\A d \in DeviceIds :
          (last_op'.op = "register" /\ last_op'.device = d)
          => /\ last_op'.code = 200
             /\ device_registry'[d] =
                   [device_type |-> Get(last_op'.request, "device_type", "unknown"),
                    protocol |-> Get(last_op'.request, "protocol", "unknown"),
                    firmware_version |-> Get(last_op'.request, "firmware_version", "1.0.0"),
                    capabilities |-> Get(last_op'.request, "capabilities", {}),
                    registered_at |-> now,
                    status |-> "active"]
             /\ device_configs'[d] =
                   [telemetry_interval |-> Get(last_op'.request, "telemetry_interval", 30),
                    heartbeat_interval |-> Get(last_op'.request, "heartbeat_interval", 60),
                    alert_thresholds |->
                        [battery |-> 20, temperature |-> 40, signal_strength |-> -100]]]_vars

\* C15 witness: truck1 was registered with a device type and an interval of
\* 5, its config was updated to an interval of 10, and it has been
\* registered again with the protocol only: type and interval are the
\* defaults again.
C15_Witness ==
    /\ last_op.op = "register"
    /\ last_op.request = [protocol |-> "http"]
    /\ registrations = 2
    /\ "truck1" \in DOMAIN device_commands
    /\ \E i \in 1..Len(device_commands["truck1"]) :
          device_commands["truck1"][i].type = "config_update"
    /\ device_registry["truck1"].device_type = "unknown"
    /\ device_configs["truck1"].telemetry_interval = 30

\* C16 (as claimed): no registry entry, history or snapshot is keyed by an
\* empty or null device id, whatever the device_id and id fields of the
\* messages are.
C16_DeviceIdNeverEmpty ==
    \A k \in DOMAIN device_registry \cup DOMAIN telemetry \cup DOMAIN assets :
        k \notin {"", None}

\* C16, the failing case: a message without device_id and with an empty id
\* has been recorded under the empty device id.
C16_Witness ==
    /\ last_op.op = "telemetry"
    /\ last_op.device = ""
    /\ last_op.outcome = "recorded"
    /\ last_msg[""].raw = Reading @@ ("id" :> "")
    /\ "" \in DOMAIN device_registry
    /\ Len(telemetry[""]) = 1

\* C17 (as claimed): the sample stored for a recorded message carries the
\* protocol tag of the submitting adapter and the device_type, status,
\* signal_strength and sensor_data of the message, with the defaults only for
\* what the message omits.
C17_RecordCarriesMessageFields ==
    [][\A d \in DeviceIds :
          (TelemetryStep(d) /\ last_op'.outcome = "recorded")
          => /\ Last(telemetry'[d]).protocol = last_msg'[d].adapter
             /\ Last(telemetry'[d]).device_type
                   = Get(last_msg'[d].raw, "device_type", "unknown")
             /\ Last(telemetry'[d]).status = Get(last_msg'[d].raw, "status", "OK")
             /\ Last(telemetry'[d]).signal_strength
                   = Get(last_msg'[d].raw, "signal_strength", 0)
             /\ Last(telemetry'[d]).sensor_data
                   = Get(last_msg'[d].raw, "sensor_data", "{}")]_vars

\* C17, the failing case: the second sample of a device, sent through the
\* CoAP bridge by a moving truck, is stored with protocol "unknown", device
\* type "unknown", status "OK" and signal strength 0.
C17_Witness ==
    /\ TelemetryStepDone("truck1")
    /\ last_op.outcome = "recorded"
    /\ last_msg["truck1"].adapter = "coap"
    /\ Get(last_msg["truck1"].raw, "status", "OK") = "MOVING"
    /\ Len(telemetry["truck1"]) = 2
    /\ Last(telemetry["truck1"]).compressed
    /\ Last(telemetry["truck1"]).protocol = "unknown"
    /\ Last(telemetry["truck1"]).device_type = "unknown"
    /\ Last(telemetry["truck1"]).status = "OK"
    /\ Last(telemetry["truck1"]).signal_strength = 0

\* C18: the geofence_state stored in a recorded sample of a device with a
\* geofence is the containment after the transition caused by the sample's
\* own position; a geofence alert caused by the sample is in the alert
\* sequence when the sample is in the history, and names the same state.
C18_RecordHoldsPostTransitionState ==
    [][\A d \in DOMAIN geofences :
          ProcessedStep(d)
          => /\ Last(telemetry'[d]).geofence_state = StepComputed(d)
             /\ Last(telemetry'[d]).geofence_state = device_geofence_state'[d]
             /\ assets'[d].geofence_state = StepComputed(d)
             /\ Len(alerts') > Len(alerts)
                => /\ Last(alerts').device_id = d
                   /\ Last(alerts').detail[2] = Last(telemetry'[d]).geofence_state]_vars

\* C18 witness: a sample that took the device from inside to outside has
\* been recorded with geofence_state "outside", after a sample recorded
\* "inside", and the breach alert is in the alert sequence.
C18_Witness ==
    /\ TelemetryStepDone("truck1")
    /\ last_op.outcome = "recorded"
    /\ "truck1" \in DOMAIN geofences
    /\ Len(telemetry["truck1"]) = 2
    /\ telemetry["truck1"][1].geofence_state = "inside"
    /\ telemetry["truck1"][2].geofence_state = "outside"
    /\ alerts # <<>>
    /\ Last(alerts).type = "GEOFENCE_BREACH"

\* The step being taken is a recorded sample of device d on which the
\* pipeline runs the health analytics.
AnalysisStep(d) ==
    /\ ProcessedStep(d)
    /\ Get(analysis_runs', d, 0) # Get(analysis_runs, d, 0)

\* The step being taken is a maintenance query for device d that ran the
\* predictor on demand and got a prediction.
OnDemandStep(d) ==
    /\ last_op'.op = "get_maintenance"
    /\ last_op'.device = d
    /\ last_op'.code = 200
    /\ last_op'.on_demand
    /\ last_op'.prediction # <<>>

\* The step being taken appends a PREDICTIVE_MAINTENANCE alert of severity
\* "high" for device d.
MaintenanceAlertAppended(d) ==
    /\ Len(alerts') = Len(alerts) + 1
    /\ Last(alerts').type = "PREDICTIVE_MAINTENANCE"
    /\ Last(alerts').severity = "high"
    /\ Last(alerts').device_id = d

\* C19 (as amended): on an analytics run of the telemetry pipeline the
\* prediction computed from the new history replaces the stored one, and a
\* PREDICTIVE_MAINTENANCE alert of severity "high" carrying the score is
\* appended iff the score is below 0.4; a prediction computed on demand by
\* the maintenance query is stored and returned, and no alert is appended
\* whatever its score.
C19_AlertOnPipelineRun ==
    [][\A d \in DeviceIds :
          /\ AnalysisStep(d)
             => /\ d \in DOMAIN maintenance_predictions'
                /\ maintenance_predictions'[d] = analyze_health_trends(d, telemetry'[d])
                /\ IF maintenance_predictions'[d].health_score < 40
                   THEN /\ MaintenanceAlertAppended(d)
                        /\ Last(alerts').detail[2] = maintenance_predictions'[d].health_score
                   ELSE alerts' = alerts
          /\ OnDemandStep(d)
             => /\ d \notin DOMAIN maintenance_predictions
                /\ maintenance_predictions'[d] = last_op'.prediction[1]
                /\ maintenance_predictions'[d] = analyze_health_trends(d, telemetry[d])
                /\ alerts' = alerts]_vars

\* C19 (as claimed): on every analytics run that yields a prediction, the
\* alert is appended iff the stored prediction's score is below 0.4.
C19_AlertOnEveryRun ==
    [][\A d \in DeviceIds :
          (AnalysisStep(d) \/ OnDemandStep(d))
          => /\ d \in DOMAIN maintenance_predictions'
             /\ maintenance_predictions'[d].health_score < 40
                <=> MaintenanceAlertAppended(d)]_vars

\* C19 witness: the tenth sample of a device has run the analytics on a
\* history of falling battery, long hops and swinging temperature; the score
\* stored is below 0.4 and the alert is the last of the alert sequence.
C19_Witness ==
    /\ TelemetryStepDone("truck1")
    /\ last_op.outcome = "recorded"
    /\ Len(telemetry["truck1"]) = AnalysisEvery
    /\ Get(analysis_runs, "truck1", 0) = 1
    /\ "truck1" \in DOMAIN maintenance_predictions
    /\ maintenance_predictions["truck1"].health_score < 40
    /\ alerts # <<>>
    /\ Last(alerts).type = "PREDICTIVE_MAINTENANCE"
    /\ Last(alerts).severity = "high"
    /\ Last(alerts).detail[2] = maintenance_predictions["truck1"].health_score

\* C20: a maintenance query that runs the predictor over a history of fewer
\* than 5 samples is answered 200 with a null prediction, and the stored
\* predictions and health scores are left as they were.
C20_ShortHistoryNoPrediction ==
    [][\A d \in DeviceIds :
          (/\ last_op'.op = "get_maintenance"
           /\ last_op'.device = d
           /\ last_op'.code = 200
           /\ last_op'.on_demand
           /\ Len(telemetry[d]) < MinHealthPoints)
          => /\ last_op'.prediction = <<>>
             /\ maintenance_predictions' = maintenance_predictions
             /\ device_health_scores' = device_health_scores
             /\ d \notin DOMAIN maintenance_predictions'
             /\ d \notin DOMAIN device_health_scores']_vars

\* C20 witness: the maintenance query has run the predictor over a history
\* of 4 samples and answered with a null prediction; nothing is stored.
C20_Witness ==
    /\ last_op.op = "get_maintenance"
    /\ last_op.code = 200
    /\ last_op.on_demand
    /\ last_op.prediction = <<>>
    /\ Len(telemetry["truck1"]) = MinHealthPoints - 1
    /\ "truck1" \notin DOMAIN maintenance_predictions
    /\ "truck1" \notin DOMAIN device_health_scores

\* C21: every health score the predictor computes or stores lies in [0,1]
\* (0..1000 thousandths, 0..100 hundredths in a prediction), and so does
\* each of the three terms it weights, whatever the battery course (flat at
\* zero, steeply rising, steeply falling) and however large the movement and
\* the temperature variation.
C21_HealthScoreInUnitInterval ==
    /\ \A d \in DOMAIN telemetry :
          LET history == telemetry[d]
          IN /\ battery_score(battery_slope(history)) \in 0..1000
             /\ movement_score(analyze_usage_patterns(history)) \in 0..1000
             /\ temp_score(analyze_usage_patterns(history)) \in 0..1000
             /\ health_score_of(history) \in 0..1000
    /\ \A d \in DOMAIN device_health_scores : device_health_scores[d] \in 0..1000
    /\ \A d \in DOMAIN maintenance_predictions :
          maintenance_predictions[d].health_score \in 0..100

\* C21 witness: the predictor has scored a history of steeply rising battery
\* readings whose raw battery term is far above 1, and the stored score is 1.
C21_Witness ==
    /\ "truck1" \in DOMAIN device_health_scores
    /\ "truck1" \in DOMAIN maintenance_predictions
    /\ Len(telemetry["truck1"]) = MinHealthPoints
    /\ \A i \in 1..MinHealthPoints : telemetry["truck1"][i].battery = (i - 1) * 25
    /\ battery_score_unclamped(battery_slope(telemetry["truck1"])) > 100000
    /\ device_health_scores["truck1"] = 1000

\* The recommendations of a band of scores (in thousandths).
BandActions(score) ==
    IF score < 300
    THEN <<"Immediate battery check", "Full diagnostic", "Consider replacement">>
    ELSE IF score < 600
    THEN <<"Scheduled maintenance", "Battery calibration", "Firmware update">>
    ELSE <<"Routine check">>

\* The horizon of a band of scores (in thousandths).
BandDays(score) == IF score < 300 THEN 7 ELSE IF score < 600 THEN 30 ELSE 90

IsPrefix(s, t) == Len(s) <= Len(t) /\ \A i \in 1..Len(s) : s[i] = t[i]

\* C22 (as amended): the horizon and the recommendations of a stored
\* prediction follow the bands of the score as the predictor computed it
\* (kept, unrounded, in device_health_scores), of which the reported
\* health_score is the rounding to two decimals; the list is the band's
\* list, followed by "Battery replacement recommended" exactly when the
\* battery slope is below -0.5 per sample.  The computed score is never
\* below 0.3, so the 7-day band does not occur.
C22_HorizonByComputedScore ==
    \A d \in DOMAIN maintenance_predictions :
        LET p == maintenance_predictions[d]
            score == device_health_scores[d]
        IN /\ p.health_score = (score + 5) \div 10
           /\ p.predicted_maintenance_date.days = BandDays(score)
           /\ IsPrefix(BandActions(score), p.recommended_actions)
           /\ p.recommended_actions \in
                 {BandActions(score),
                  BandActions(score) \o <<"Battery replacement recommended">>}
           /\ (Len(p.recommended_actions) > Len(BandActions(score)))
              <=> (p.battery_degradation_rate < -5000)
           /\ score >= 300

\* C22 (as claimed): the horizon and the band of recommendations of a
\* prediction follow the bands of the health score it reports.
C22_HorizonByReportedScore ==
    \A d \in DOMAIN maintenance_predictions :
        LET p == maintenance_predictions[d]
        IN /\ p.predicted_maintenance_date.days = BandDays(p.health_score * 10)
           /\ IsPrefix(BandActions(p.health_score * 10), p.recommended_actions)

\* C22 witness: a prediction reporting a health score of 0.60 whose computed
\* score is below 0.6: its horizon is 30 days.
C22_Witness ==
    /\ "truck1" \in DOMAIN maintenance_predictions
    /\ maintenance_predictions["truck1"].health_score = 60
    /\ device_health_scores["truck1"] \in 595..599
    /\ maintenance_predictions["truck1"].predicted_maintenance_date.days = 30
    /\ maintenance_predictions["truck1"].recommended_actions[1] = "Scheduled maintenance"

C24_CacheFollowsEvaluations ==
    \A d \in DOMAIN recorded :
        /\ Len(Get(pattern_cache, d, <<>>)) = Min(recorded[d], CacheWindow)
        /\ recorded[d] >= ColdStart => d \in anomaly_models

\* C24 witness: eleven samples of a device have been evaluated; its cache is
\* empty and it has no model.
C24_Witness ==
    /\ Get(recorded, "truck1", 0) = ColdStart + 1
    /\ pattern_cache["truck1"] = <<>>
    /\ "truck1" \notin anomaly_models

\* The alerts of the sequence that report an anomaly found at the edge.
EdgeAnomalyTypes ==
    {"EDGE_ANOMALY_CRITICAL_BATTERY", "EDGE_ANOMALY_OVERHEATING",
     "EDGE_ANOMALY_SIGNAL_DEGRADATION", "EDGE_ANOMALY_BEHAVIORAL_ANOMALY"}

C26_SkippedUpdatesInsight ==
    [][\A d \in DeviceIds :
          (TelemetryStep(d) /\ last_op'.outcome = "skipped")
          => /\ d \in DOMAIN edge_insights'
             /\ edge_insights'[d].last_processed = now
             /\ edge_insights'[d].anomaly_detected = last_op'.is_anomaly]_vars

\* C26 witness: a sample has been skipped at time 1 and the insight entry
\* still carries the time 0 of the last recorded sample.
C26_Witness ==
    /\ TelemetryStepDone("truck1")
    /\ last_op.outcome = "skipped"
    /\ now = 1
    /\ edge_insights["truck1"].last_processed = 0

\* new is old after k appends to a sequence of capacity AlertsCap: the
\* entries of old that remain are its most recent ones, in their order.
Kept(old, new, k) ==
    /\ Len(new) = Min(Len(old) + k, AlertsCap)
    /\ \A i \in 1..(Len(new) - k) : new[i] = old[i + (Len(old) + k - Len(new))]

\* The step being taken takes device d from inside to outside a geofence
\* that alerts on breach.
BreachStep(d) ==
    /\ ProcessedStep(d)
    /\ d \in DOMAIN geofences
    /\ geofences[d].alert_on_breach
    /\ device_geofence_state[d] = "inside"
    /\ device_geofence_state'[d] = "outside"

\* C27: the alert sequence never holds more than 1000 alerts; every step
\* leaves it as it was or appends to it, and an append to a full sequence
\* evicts the oldest alert and keeps the others in their order, whether the
\* alert comes from an adapter, from a geofence breach or from the
\* maintenance predictor.
C27_AlertsBounded ==
    [][ /\ Len(alerts') <= AlertsCap
        /\ \E k \in 0..2 : Kept(alerts, alerts', k)
        /\ (last_op'.op = "alert" /\ last_op'.code = 200)
           => /\ Kept(alerts, alerts', 1)
              /\ Last(alerts').timestamp = now
              /\ Last(alerts').protocol = last_op'.adapter
        /\ \A d \in DeviceIds :
              /\ BreachStep(d)
                 => /\ Kept(alerts, alerts', 1)
                    /\ Last(alerts').type = "GEOFENCE_BREACH"
              /\ (AnalysisStep(d) /\ maintenance_predictions'[d].health_score < 40)
                 => /\ Kept(alerts, alerts', 1)
                    /\ Last(alerts').type = "PREDICTIVE_MAINTENANCE" ]_vars

\* C27 witness: 1002 alerts have been appended, the last two of them to a
\* full sequence: the sequence holds 1000, the oldest is the adapter alert of
\* a later instant than the first two, a geofence alert is in it and the
\* maintenance alert is its last entry.
C27_Witness ==
    /\ Len(alerts) = AlertsCap
    /\ alerts[1].timestamp >= 2
    /\ \A i \in 1..(AlertsCap - 3) : alerts[i + 1].timestamp = alerts[i].timestamp + 1
    /\ \E i \in 1..Len(alerts) : alerts[i].type = "GEOFENCE_BREACH"
    /\ Last(alerts).type = "PREDICTIVE_MAINTENANCE"

ContractFields ==
    {"timestamp", "device_id", "device_type", "type", "detail", "protocol", "severity"}

\* C28 (as claimed): every alert of the sequence has all the fields of the
\* alert contract.
C28_AlertsCarryContract ==
    \A i \in 1..Len(alerts) : ContractFields \subseteq DOMAIN alerts[i]

\* C28 witness: the sequence holds an adapter alert with every field of the
\* contract, a geofence alert without severity and a maintenance alert
\* without device_type.
C28_Witness ==
    /\ \E i \in 1..Len(alerts) :
          /\ alerts[i].type = "UNKNOWN_ALERT"
          /\ ContractFields \subseteq DOMAIN alerts[i]
    /\ \E i \in 1..Len(alerts) :
          /\ alerts[i].type = "GEOFENCE_BREACH"
          /\ ContractFields \ DOMAIN alerts[i] = {"severity"}
    /\ \E i \in 1..Len(alerts) :
          /\ alerts[i].type = "PREDICTIVE_MAINTENANCE"
          /\ ContractFields \ DOMAIN alerts[i] = {"device_type"}

BreachAlerts(d) ==
    Cardinality({i \in 1..Len(alerts) :
                    alerts[i].type = "GEOFENCE_BREACH" /\ alerts[i].device_id = d})

\* Thread t has handled, to the end, a sample that it found outside the
\* geofence.
HandledOutside(t) ==
    /\ threads[t].pc = "done"
    /\ "current_state" \in DOMAIN threads[t]
    /\ threads[t].current_state = "outside"

\* C30 (as claimed): when the two threads have each handled an outside
\* sample of a device that was inside a geofence alerting on breach, the
\* alert sequence holds exactly one GEOFENCE_BREACH alert for the device,
\* under every interleaving of their steps.
C30_OneBreachPerCrossing ==
    \A d \in DOMAIN geofences :
        (geofences[d].alert_on_breach /\ \A t \in ThreadIds : HandledOutside(t))
        => BreachAlerts(d) = 1

\* C30 witness: both threads read the containment "inside" before either
\* wrote it; both have finished and the alert sequence holds two
\* GEOFENCE_BREACH alerts for the one crossing.
C30_Witness ==
    /\ \A t \in ThreadIds : HandledOutside(t) /\ threads[t].previous_state = "inside"
    /\ device_geofence_state["truck1"] = "outside"
    /\ BreachAlerts("truck1") = 2
    /\ Len(telemetry["truck1"]) = 2

\* Thread t has run the pipeline to its end for a sample that was recorded.
RecordedBy(t) ==
    /\ threads[t].pc = "done"
    /\ "record" \in DOMAIN threads[t]

\* C31 (as claimed): once every submission for a device has completed, under
\* any interleaving of their steps, the device's current snapshot is the last
\* entry of its history.
C31_SnapshotIsLastOfHistory ==
    (\A t \in ThreadIds : RecordedBy(t))
    => assets["truck1"] = Last(telemetry["truck1"])

\* C31 witness: both submissions have completed; the MQTT thread wrote the
\* snapshot last, the worker thread appended to the history last, and the
\* snapshot is the first of the two history entries, not the last.
C31_Witness ==
    /\ \A t \in ThreadIds : RecordedBy(t)
    /\ Len(telemetry["truck1"]) = 2
    /\ assets["truck1"] = threads["mqtt"].record
    /\ telemetry["truck1"] = <<threads["mqtt"].record, threads["coap"].record>>
    /\ threads["mqtt"].record # threads["coap"].record


\* C32: for a registered device, a set-geofence request whose body is empty
\* or lacks one of center_lat, center_lon, radius_km, and a send-command
\* request whose body is empty or lacks command, are answered 400 and leave
\* the geofence configs, the containment states and the command queues
\* unchanged.
C32_InvalidBodyRejected ==
    [][ \A d \in DOMAIN device_registry :
          ((\E data \in InvalidGeofenceBodies : SetGeofence(d, data))
           \/ (\E data \in InvalidCommandBodies : EnqueueCommand(d, data)))
          => /\ last_op'.code = 400
             /\ UNCHANGED <<geofences, device_geofence_state, device_commands>>
      ]_vars

\* C32 witness: a set-geofence request was answered 400 while the device had
\* a geofence, was outside it and had a command queued.
C32_Witness ==
    /\ last_op = [op |-> "set_geofence", device |-> "truck1", code |-> 400]
    /\ "truck1" \in DOMAIN geofences
    /\ device_geofence_state["truck1"] = "outside"
    /\ Len(Get(device_commands, "truck1", <<>>)) = 1

\* C33 (as claimed): a telemetry message with a non-numeric lat or battery
\* is rejected as a whole: the registry, the containment states, the alert
\* sequence, the histories and the snapshots are as they were before it.
C33_MalformedRejectedWhole ==
    [][ \A raw \in MalformedMessages :
          SubmitTelemetry("coap", raw)
          => UNCHANGED <<device_registry, device_geofence_state, alerts, telemetry,
                         assets>>
      ]_vars

\* C33 witness: a message of truck1 with a non-numeric battery was answered
\* with an error and left no history entry, but it moved the containment
\* state to "outside" and appended a GEOFENCE_BREACH alert; and a malformed
\* message has registered lorawan_A1.
C33_Witness ==
    /\ last_op.op = "telemetry" /\ last_op.outcome = "raised" /\ last_op.code = 400
    /\ last_op.device = "truck1"
    /\ last_msg["truck1"].raw.battery = NonNumeric
    /\ "truck1" \notin DOMAIN telemetry
    /\ Get(device_geofence_state, "truck1", "unknown") = "outside"
    /\ BreachAlerts("truck1") = 1
    /\ "lorawan_A1" \in DOMAIN device_registry
    /\ "lorawan_A1" \notin DOMAIN telemetry

\* A geofence alert of any type for device d in the alert sequence als.
GeofenceAlerts(als, d) ==
    {i \in 1..Len(als) :
        als[i].device_id = d /\ als[i].type \in {"GEOFENCE_BREACH", "GEOFENCE_RETURN"}}

\* C34: a successful set-geofence stores the config and puts the device's
\* containment state to "inside", whatever the previous state and the last
\* recorded position; a successful delete removes the config and the
\* containment state; and telemetry of a device without a geofence creates
\* no containment state and appends no geofence alert.
C34_SetResetsDeleteRemoves ==
    [][ \A d \in DeviceIds :
          /\ (last_op'.op = "set_geofence" /\ last_op'.device = d /\ last_op'.code = 200)
             => /\ d \in DOMAIN geofences'
                /\ Get(device_geofence_state', d, "unknown") = "inside"
          /\ (last_op'.op = "delete_geofence" /\ last_op'.device = d /\ last_op'.code = 200)
             => /\ d \notin DOMAIN geofences'
                /\ d \notin DOMAIN device_geofence_state'
          /\ (TelemetryStep(d) /\ d \notin DOMAIN geofences)
             => /\ d \notin DOMAIN device_geofence_state'
                /\ GeofenceAlerts(alerts', d) = GeofenceAlerts(alerts, d)
      ]_vars

\* C34 witness: a geofence was set again for a device whose containment was
\* "outside" and whose last recorded position is outside the new fence; the
\* containment state is "inside".
C34_Witness ==
    /\ last_op = [op |-> "set_geofence", device |-> "truck1", code |-> 200]
    /\ "truck1" \in DOMAIN assets
    /\ assets["truck1"].geofence_state = "outside"
    /\ assets["truck1"].lat = 3495000
    /\ device_geofence_state["truck1"] = "inside"

\* C34 witness of the deletion: after a breach the geofence was deleted, and
\* a later sample outside the former fence was recorded with no containment
\* state and no further alert.
C34_WitnessDeleted ==
    /\ last_op.op = "telemetry" /\ last_op.outcome = "recorded"
    /\ "truck1" \notin DOMAIN geofences
    /\ "truck1" \notin DOMAIN device_geofence_state
    /\ Len(Get(telemetry, "truck1", <<>>)) = 2
    /\ telemetry["truck1"][1].geofence_state = "outside"
    /\ telemetry["truck1"][2].geofence_state = "unknown"
    /\ telemetry["truck1"][2].lat = 3495000
    /\ Cardinality(GeofenceAlerts(alerts, "truck1")) = 1

\* C35 (as claimed): a command whose status is "acknowledged" keeps that
\* status in every step, under any interleaving of the send-command request
\* with the acknowledgment.
C35_AcknowledgedIsTerminal ==
    [][ \A d \in DOMAIN device_commands :
          \A i \in 1..Len(device_commands[d]) :
             device_commands[d][i].status = "acknowledged"
             => device_commands'[d][i].status = "acknowledged"
      ]_vars

\* C35 witness: the send-command request has completed and answered "sent"
\* for a command that carries an acknowledgment time: the device
\* acknowledged it before the request marked it sent.
C35_Witness ==
    /\ last_op.op = "enqueue" /\ last_op.code = 200 /\ last_op.status = "sent"
    /\ \E i \in 1..Len(Get(device_commands, "truck1", <<>>)) :
          /\ device_commands["truck1"][i].command_id = last_op.command_id
          /\ device_commands["truck1"][i].status = "sent"
          /\ device_commands["truck1"][i].ack_timestamp # NoneTs

\* C36 (as claimed): in every reachable state a device has a containment
\* state exactly if it has a geofence config, and every device with a
\* geofence config is in the registry, also when a set or delete request runs
\* between the steps of a telemetry call for the device.
C36_StateIffConfig ==
    /\ DOMAIN device_geofence_state = DOMAIN geofences
    /\ DOMAIN geofences \subseteq DOMAIN device_registry

\* C36 witness: the geofence of truck1 was deleted after a telemetry call had
\* found it and before the call wrote the containment state; the call has
\* completed and truck1 has the containment state "outside" and no geofence.
C36_Witness ==
    /\ "truck1" \notin DOMAIN geofences
    /\ "truck1" \in DOMAIN device_geofence_state
    /\ device_geofence_state["truck1"] = "outside"
    /\ \E t \in ThreadIds : HandledOutside(t)
    /\ assets["truck1"].geofence_state = "outside"

\* C37 (as claimed): a step of the telemetry pipeline leaves the record of
\* every device that is in the registry unchanged, under any interleaving of
\* the calls of several adapters and of an explicit registration.
C37_AutoRegistrationKeepsRecord ==
    [][ last_op'.op # "register"
        => \A d \in DOMAIN device_registry : device_registry'[d] = device_registry[d]
      ]_vars

\* C37 witness: truck1 was registered explicitly (protocol http) after a
\* telemetry call had found it absent from the registry; the call's
\* auto-registration has replaced the explicit record.
C37_Witness ==
    /\ registrations = 1
    /\ last_op.op = "telemetry_register" /\ last_op.wrote
    /\ device_registry["truck1"].protocol = last_op.adapter
    /\ device_registry["truck1"].firmware_version = "unknown"
    /\ device_registry["truck1"].device_type = "truck"
    /\ "truck1" \in DOMAIN device_configs

\* C38: a sample is skipped only when the device has a stored sample and
\* its battery, temperature and position differ from that sample's by no
\* more than the thresholds; the skipped sample leaves the device's history,
\* snapshot, containment state, registry record and health prediction and
\* the alert sequence unchanged.
C38_SkipOnlyIfSimilarAndNoEffect ==
    [][ \A d \in DeviceIds :
          (TelemetryStep(d) /\ last_op'.outcome = "skipped")
          => /\ Get(telemetry, d, <<>>) # <<>>
             /\ LET raw == last_msg'[d].raw
                    previous == Last(telemetry[d])
                IN /\ Abs(Get(raw, "battery", 0) - previous.battery) <= ThresholdBattery
                   /\ Abs(Get(raw, "temperature", 0) - previous.temperature)
                         <= ThresholdTemperature
                   /\ calculate_distance(Get(raw, "lat", 0), Get(raw, "lon", 0),
                                         previous.lat, previous.lon) <= ThresholdPosition
             /\ UNCHANGED <<telemetry, assets, device_geofence_state, device_registry,
                            maintenance_predictions, alerts>>
      ]_vars

\* C38 witness: truck1 is inside its geofence with a stored sample 995 m from
\* the centre; a sample 5.6 m further on, outside the fence, was skipped, and
\* the containment state is still "inside" with no alert.
C38_Witness ==
    /\ TelemetryStepDone("truck1")
    /\ last_op.outcome = "skipped"
    /\ last_msg["truck1"].raw.lat = 3489900
    /\ Last(telemetry["truck1"]).lat = 3489895
    /\ "truck1" \in DOMAIN geofences
    /\ device_geofence_state["truck1"] = "inside"
    /\ alerts = <<>>

\* C39: every health score the predictor computes is at least 0.3, and no
\* stored prediction has the 7-day horizon or the recommendations of the
\* band below 0.3.
C39_ScoreAtLeastBase ==
    /\ \A d \in DOMAIN device_health_scores : device_health_scores[d] >= 300
    /\ \A d \in DOMAIN maintenance_predictions :
          LET p == maintenance_predictions[d]
          IN /\ p.health_score >= 30
             /\ p.predicted_maintenance_date.days # 7
             /\ \A i \in 1..Len(p.recommended_actions) :
                   p.recommended_actions[i] \notin
                      {"Immediate battery check", "Full diagnostic", "Consider replacement"}

\* C39 witness: the worst case of every term (battery falling by 25 points a
\* sample, 222 km between samples, temperature swinging by 120 degrees) gives
\* the score 0.3 exactly, with the 30-day horizon.
C39_Witness ==
    /\ "truck1" \in DOMAIN maintenance_predictions
    /\ device_health_scores["truck1"] = 300
    /\ maintenance_predictions["truck1"].health_score = 30
    /\ maintenance_predictions["truck1"].predicted_maintenance_date.days = 30
    /\ maintenance_predictions["truck1"].recommended_actions[1] = "Scheduled maintenance"

\* C40 (as claimed): the last_seen that the get-device and list-devices
\* queries report for a device with a history is the timestamp of the
\* device's most recently recorded sample, the sample of the online check.
C40_LastSeenIsLatest ==
    [][ /\ (last_op'.op = "get_device" /\ last_op'.code = 200
            /\ Get(telemetry, last_op'.device, <<>>) # <<>>)
           => last_op'.last_seen = Last(telemetry[last_op'.device]).timestamp
        /\ last_op'.op = "list_devices"
           => \A d \in DOMAIN last_op'.last_seen :
                 Get(telemetry, d, <<>>) # <<>>
                 => last_op'.last_seen[d] = Last(telemetry[d]).timestamp
      ]_vars

\* C40 witness: with a full history of 500 samples, the oldest of them with
\* timestamp 3 and the latest with timestamp 502, get-device reports
\* last_seen 3.
C40_Witness ==
    /\ last_op.op = "get_device" /\ last_op.code = 200
    /\ Len(telemetry["truck1"]) = HistoryCap
    /\ telemetry["truck1"][1].timestamp = 3
    /\ Last(telemetry["truck1"]).timestamp = 502
    /\ last_op.last_seen = 3

=============================================================================
